---- MODULE Spec2Model ----
(***************************************************************************)
(* A model of tux-agent's orchestration core:                              *)
(*   - APIProvider.make_request   (src/src/core/api_providers.py)          *)
(*   - ToolExecutor.execute_tool  (src/src/core/tool_executor.py)          *)
(*   - KimiExecutor.execute       (src/src/daemon/kimi_executor.py)        *)
(* Each component has its own specification (ReqSpec, ToolSpec, ExecSpec)  *)
(* over the shared variables; a specification leaves the variables of the  *)
(* other components at their idle values.                                  *)
(***************************************************************************)
EXTENDS Integers, Sequences, FiniteSets, TLC

VARIABLES
    \* ---- APIProvider.make_request ----
    provider,      \* which APIProvider subclass was constructed
    rq_pc,         \* "idle" | "loop" | "returned"
    max_retries,   \* the max_retries argument of the call
    attempt,       \* the loop variable of `for attempt in range(max_retries)`
    last_error,    \* the local last_error
    slept,         \* the arguments of the time.sleep calls, in order
    seen,          \* what the backend did on each attempt, in order
    rq_result,     \* the value make_request returned
    \* ---- ToolExecutor ----
    functions,     \* self.functions: the registered tool names, in registration order
    workspace,     \* self.workspace
    token_context, \* self._token_context
    tx_call,       \* the last execute_tool call: its tool name and argument map
    called,        \* the tool functions the last dispatch invoked, with their kwargs
    tx_result,     \* what the last execute_tool call returned or raised
    \* ---- KimiExecutor.execute ----
    ex_pc,               \* "idle" | "request" | "tools" | "done"
    conversation,        \* whether self.conversation is set
    store,               \* self.conversation.messages
    tool_executions,     \* self.conversation.tool_executions
    messages,            \* the local messages: the in-flight message array
    iteration,           \* the local iteration
    max_tool_iterations, \* the max_tool_iterations argument
    responses,           \* what _make_api_request returned, request by request
    tool_calls,          \* the tool calls of the response being processed
    tc_index,            \* the position of _execute_tool_calls in tool_calls
    results,             \* the local results of _execute_tool_calls
    returned,            \* what execute returned or raised
    total_requests,      \* self.total_requests
    total_tool_calls,    \* self.total_tool_calls
    document,            \* the thread's JSON document: whether this call's exchange was saved, and the messages saved
    \* ---- read_file ----
    rf_doc,        \* the file read_file is pointed at
    rf_tokenizer,  \* whether tiktoken can be imported and used
    rf_context,    \* the _context argument the executor injects
    rf_call,       \* the arguments of the last read_file call
    rf_result,     \* what the last read_file call returned
    rf_hint,       \* the continuation hint of the last read of the reading process
    rf_chain,      \* the windows of the reading process in progress, in order
    \* ---- TuxAgentDBusService ----
    sv_lock,         \* self._lock: 0 when free, else the invocation that holds it
    sv_pc,           \* where each method invocation is
    sv_method,       \* the method each invocation calls
    sv_conversation, \* whether the executor has a conversation
    sv_store,        \* the messages of the conversation
    sv_response,     \* what each invocation returned
    sv_count,        \* message_count of each thread's metadata
    sv_current,      \* the manager's current_thread_id
    sv_object,       \* which conversation object the executor holds, 0 for None
    sv_cleared,      \* whether that conversation was cleared
    sv_files,        \* the messages saved in each thread's document
    sv_trace,        \* per invocation: the conversations written and the thread updated
    \* ---- ThreadManager ----
    th_metadata,     \* self.thread_metadata: thread id -> ThreadMetadata
    th_order,        \* the order of the dict thread_metadata
    th_current,      \* self.current_thread_id, 0 for None
    th_conversation, \* the session_id of self.current_conversation, 0 for None
    th_now,          \* what datetime.now() answers next
    th_next,         \* the next fresh thread id
    th_last          \* the last operation: its name and outcome

reqVars == <<provider, rq_pc, max_retries, attempt, last_error, slept, seen, rq_result>>
toolVars == <<functions, workspace, token_context, tx_call, called, tx_result>>

execVars == <<ex_pc, conversation, store, tool_executions, messages, iteration,
              max_tool_iterations, responses, tool_calls, tc_index, results, returned,
              total_requests, total_tool_calls, document>>

readVars == <<rf_doc, rf_tokenizer, rf_context, rf_call, rf_result, rf_hint, rf_chain>>

\* The variables of the components added after the orchestration core.
svcVars == <<sv_lock, sv_pc, sv_method, sv_conversation, sv_store, sv_response, sv_count,
             sv_current, sv_object, sv_cleared, sv_files, sv_trace>>

threadVars == <<th_metadata, th_order, th_current, th_conversation, th_now, th_next, th_last>>

extVars == <<readVars, svcVars, threadVars>>

vars == <<provider, rq_pc, max_retries, attempt, last_error, slept, seen, rq_result,
          functions, workspace, token_context, tx_call, called, tx_result,
          ex_pc, conversation, store, tool_executions, messages, iteration,
          max_tool_iterations, responses, tool_calls, tc_index, results, returned,
          total_requests, total_tool_calls, extVars>>

None == "None"

(***************************************************************************)
(*                             ToolExecutor                                *)
(***************************************************************************)

\* The tools of the model, in the order _register_tools registers them:
\* read_file through the workspace wrapper, dns_lookup and
\* network_speed_test directly.
RegistrationOrder == <<"read_file", "dns_lookup", "network_speed_test">>

\* tools registered through _create_workspace_wrapper
WorkspaceTools == {"read_file", "write_file", "list_directory", "find_files",
                   "grep_search", "word_count", "file_head", "file_tail",
                   "file_info", "create_pdf", "create_docx", "read_image_metadata",
                   "compress_file", "shell_command", "wget_download"}

\* streaming_tools of execute_tool
StreamingTools == {"shell_command", "vulnerability_scan", "wget_download",
                   "find_files", "network_speed_test"}

\* the parameters of the tool functions, and those without a default
Params(tool) ==
    CASE tool = "read_file" ->
            {"file_path", "workspace", "start_line", "limit_lines",
             "auto_truncate", "_context"}
      [] tool = "dns_lookup" -> {"domain"}
      [] tool = "network_speed_test" -> {"streaming_callback"}
      [] OTHER -> {}

Required(tool) ==
    CASE tool = "read_file" -> {"file_path"}
      [] tool = "dns_lookup" -> {"domain"}
      [] OTHER -> {}

\* the names a caller asks for: the registered ones and one that never is
ToolNames == {"read_file", "dns_lookup", "network_speed_test", "no_such_tool"}

\* the keys of the argument maps a caller passes
ArgKeys == {"tool_name", "streaming_callback", "workspace", "file_path", "domain"}

\* the value an argument map gives a key
ArgValue(k) == IF k = "workspace" THEN "ws_caller" ELSE k

ArgMaps == { [k \in K |-> ArgValue(k)] : K \in SUBSET ArgKeys }

WorkspacePaths == {"ws_a"}

\* DEFAULT_WORKSPACE
DefaultWorkspace == "home"

\* what a tool function does once it is called
ToolBehaviours == {"success", "long_output", "failure", "raises", "type_error",
                   "not_a_dict"}

\* set_token_context: max_tokens: int = 40960
DefaultMaxTokens == 40960
\* reserved_for_response = 8000
ReservedForResponse == 8000
\* safety_margin = 1000
SafetyMargin == 1000
\* available = max(1000, ...)
MinAvailable == 1000

Max(a, b) == IF a >= b THEN a ELSE b

\* available = max(1000, max_tokens - current_tokens - reserved - margin)
AvailableTokens(current_tokens, max_tokens) ==
    Max(MinAvailable, max_tokens - current_tokens - ReservedForResponse - SafetyMargin)

\* self._token_context = None
NoContext ==
    [set |-> FALSE, current_tokens |-> 0, max_tokens |-> 0, available_tokens |-> 0]

\* `if len(result_content) > 10000` of KimiExecutor._execute_tool_calls
OutputCap == 10000

\* the lengths of the outputs of the model: the longest that passes the cap
\* whole, and the shortest that does not
ShortLength == OutputCap
LongLength == OutputCap + 1

NoOutput == [text |-> "", tool |-> "", detail |-> "", names |-> <<>>, length |-> 0]

\* f"Tool '{tool_name}' not found. Available tools: {', '.join(self.functions.keys())}"
NotFoundOutput(tool, names) ==
    [text |-> "Tool not found. Available tools: ", tool |-> tool,
     detail |-> "", names |-> names, length |-> ShortLength]

\* f"Invalid arguments for '{tool_name}': {str(e)}", and the like
ErrorOutput(text, tool, detail) ==
    [text |-> text, tool |-> tool, detail |-> detail, names |-> <<>>,
     length |-> ShortLength]

\* the 'output' of a tool function's own result
ToolOutput(tool, length) ==
    [text |-> "tool output", tool |-> tool, detail |-> "", names |-> <<>>,
     length |-> length]

Returned(success, output, platform) ==
    [kind |-> "return", success |-> success, output |-> output, platform |-> platform]

\* an exception that leaves execute_tool
Raised(exc, detail) ==
    [kind |-> "raise", success |-> FALSE,
     output |-> ErrorOutput(exc, "", detail), platform |-> FALSE]

\* no execute_tool call yet
NoToolCall == [made |-> FALSE, tool_name |-> "", args |-> <<>>]

NoCall == [kind |-> "none", success |-> FALSE, output |-> NoOutput, platform |-> FALSE]

Range(f) == { f[i] : i \in DOMAIN f }

\* kwargs with kwargs[k] = v set
WithKey(kwargs, k, v) ==
    [x \in DOMAIN kwargs \cup {k} |-> IF x = k THEN v ELSE kwargs[x]]

WithoutKey(kwargs, k) == [x \in DOMAIN kwargs \ {k} |-> kwargs[x]]

SomeOf(S) == CHOOSE x \in S : TRUE

\* a slip: the executor's workspace set whether or not the caller gave one
WorkspaceWrapper_Always(kwargs, ws) == WithKey(kwargs, "workspace", ws)

\* _create_workspace_wrapper.wrapper: the kwargs base_func is called with
WorkspaceWrapper(kwargs, ws) ==
    IF "workspace" \notin DOMAIN kwargs
    THEN WithKey(kwargs, "workspace", ws)
    ELSE kwargs

\* self.functions[tool_name](**kwargs): through the wrapper or directly
ToolKwargs(tool, kwargs, ws) ==
    IF tool \in WorkspaceTools THEN WorkspaceWrapper(kwargs, ws) ELSE kwargs

\* what the tool function returns, normalised by lines 177-185
ToolOutcome(tool, beh) ==
    CASE beh = "success" ->
            Returned(TRUE, ToolOutput(tool, ShortLength), TRUE)
      [] beh = "long_output" ->
            Returned(TRUE, ToolOutput(tool, LongLength), TRUE)
      [] beh = "failure" ->
            Returned(FALSE, ToolOutput(tool, ShortLength), FALSE)
      [] beh = "not_a_dict" ->
            Returned(FALSE, ErrorOutput("str(result)", tool, ""), FALSE)
      [] beh = "type_error" ->
            Returned(FALSE, ErrorOutput("Tool execution error for ", tool, "TypeError"), FALSE)
      [] OTHER ->
            Returned(FALSE, ErrorOutput("Tool failed: ", tool, "Exception"), FALSE)

\* execute_tool_sync(tool_name, **kwargs): [res: the result, calls: the tool
\* functions invoked]
execute_tool_sync(fns, ws, ctx, tool_name, kwargs, beh) ==
    IF tool_name \notin Range(fns)
    THEN [res |-> Returned(FALSE, NotFoundOutput(tool_name, fns), FALSE), calls |-> <<>>]
    ELSE LET kw1 == IF ctx.set /\ tool_name \in {"read_file"}
                    THEN WithKey(kwargs, "_context", "token_context")
                    ELSE kwargs
             kw2 == ToolKwargs(tool_name, kw1, ws)
             unexpected == DOMAIN kw2 \ Params(tool_name)
             missing == Required(tool_name) \ DOMAIN kw2
         IN  IF unexpected # {}
             THEN [res |-> Returned(FALSE,
                               ErrorOutput("Invalid arguments for ", tool_name,
                                           SomeOf(unexpected)), FALSE),
                   calls |-> <<>>]
             ELSE IF missing # {}
             THEN [res |-> Returned(FALSE,
                               ErrorOutput("Tool execution error for ", tool_name,
                                           SomeOf(missing)), FALSE),
                   calls |-> <<>>]
             ELSE [res |-> ToolOutcome(tool_name, beh),
                   calls |-> <<[tool |-> tool_name, kwargs |-> kw2]>>]

\* a keyword of **tool_args that names a positional parameter already given:
\* Python raises TypeError before the body of execute_tool runs
BindingCollision(args) == "tool_name" \in DOMAIN args

\* execute_tool(tool_name, **args), as KimiExecutor calls it
execute_tool(fns, ws, ctx, tool_name, args, beh) ==
    IF BindingCollision(args)
    THEN [res |-> Raised("TypeError", "multiple values for argument 'tool_name'"),
          calls |-> <<>>]
    ELSE LET streaming_callback ==
                 IF "streaming_callback" \in DOMAIN args
                 THEN args["streaming_callback"] ELSE None
             kwargs == WithoutKey(args, "streaming_callback")
             kw == IF tool_name \in StreamingTools /\ streaming_callback # None
                   THEN WithKey(kwargs, "streaming_callback", streaming_callback)
                   ELSE kwargs
         IN  execute_tool_sync(fns, ws, ctx, tool_name, kw, beh)

\* _register_tools: an ImportError ends the registration where it happens
Registries == { SubSeq(RegistrationOrder, 1, k) : k \in 0 .. Len(RegistrationOrder) }

ToolIdle ==
    /\ functions = RegistrationOrder
    /\ workspace = DefaultWorkspace
    /\ token_context = NoContext
    /\ tx_call = NoToolCall
    /\ called = <<>>
    /\ tx_result = NoCall

\* ToolExecutor.__init__
ToolInit ==
    /\ functions \in Registries
    /\ workspace = DefaultWorkspace
    /\ token_context = NoContext
    /\ tx_call = NoToolCall
    /\ called = <<>>
    /\ tx_result = NoCall

\* a dispatch: execute_tool(tool_name, **args)
ExecuteTool(tool_name, args, beh) ==
    /\ LET r == execute_tool(functions, workspace, token_context, tool_name, args, beh)
       IN  /\ tx_call' = [made |-> TRUE, tool_name |-> tool_name, args |-> args]
           /\ tx_result' = r.res
           /\ called' = r.calls
    /\ UNCHANGED <<functions, workspace, token_context>>
    /\ UNCHANGED <<reqVars, execVars, extVars>>

set_workspace_path(path) ==
    /\ workspace' = path
    /\ UNCHANGED <<functions, token_context, tx_call, called, tx_result>>
    /\ UNCHANGED <<reqVars, execVars, extVars>>

set_token_context(current_tokens, max_tokens) ==
    /\ token_context' =
          [set |-> TRUE, current_tokens |-> current_tokens, max_tokens |-> max_tokens,
           available_tokens |-> AvailableTokens(current_tokens, max_tokens)]
    /\ UNCHANGED <<functions, workspace, tx_call, called, tx_result>>
    /\ UNCHANGED <<reqVars, execVars, extVars>>

ToolNext ==
    \/ \E t \in ToolNames, a \in ArgMaps, b \in ToolBehaviours : ExecuteTool(t, a, b)
    \/ \E p \in WorkspacePaths : set_workspace_path(p)
    \/ \E c \in {0} : set_token_context(c, DefaultMaxTokens)

(***************************************************************************)
(*                       APIProvider.make_request                          *)
(***************************************************************************)

\* max_retries: int = 3
DefaultMaxRetries == 3
\* the call's max_retries is drawn from 0 .. DefaultMaxRetries + MaxExtraRetries
MaxExtraRetries == 1

Providers == {"cloud", "together", "openai"}

\* HTTP status codes the backend answers with.
StatusCodes == {200, 301, 400, 401, 403, 404, 429, 500, 503}

\* The JSON objects a 200 answer carries: a bare completion, the proxy's
\* {"success": true, "data": {...}} and {"error": ...} envelopes; or a JSON
\* array; or a body that is not JSON at all.
JsonBodies == {"completion", "envelope_data", "envelope_error"}
Bodies == JsonBodies \cup {"json_array", "not_json"}

\* What one client.post(...) does: it raises or it returns a response.
\* httpx raises HTTPStatusError only from Response.raise_for_status(), which
\* make_request never calls, so no outcome of the try block is that exception.
Raises ==
    { [kind |-> "raise", exc |-> e, text |-> t] :
        e \in {"TimeoutException", "ConnectError"}, t \in {"other"} }
    \cup
    { [kind |-> "raise", exc |-> "Exception", text |-> t] :
        t \in {"network", "dns", "other"} }

Responses ==
    { [kind |-> "response", status |-> s, body |-> "completion"] :
        s \in StatusCodes \ {200} }
    \cup
    { [kind |-> "response", status |-> 200, body |-> b] : b \in Bodies }

Outcomes == Raises \cup Responses

\* A message is its fixed text plus what the f-string interpolates into it.
Msg(t) == [text |-> t, status |-> 0, detail |-> ""]

\* The user-facing messages, as the source spells them.
MsgInvalidKey == Msg("Invalid API key. Please check your API key in Settings.")
MsgAccessDenied == Msg("Access denied. Your API key may not have the required permissions.")
MsgRateLimit == Msg("Rate limit exceeded. Please wait a moment and try again.")
MsgTimeout == Msg("Request timed out after multiple attempts. Please try again.")
MsgConnection == Msg("Cannot connect to AI service after multiple attempts. Please check your internet connection.")
MsgServer == Msg("AI service is temporarily unavailable. Please try again later.")
MsgNetwork == Msg("Network error. Please check your internet connection.")
MsgDns == Msg("Cannot reach AI service. Please check your internet connection.")
\* f"API error: {response.status_code}"
MsgApiError(status) == [text |-> "API error: ", status |-> status, detail |-> ""]
\* f"Error: {last_error}"
MsgOther(err) == [text |-> "Error: ", status |-> 0, detail |-> err]

\* {"error": True, "message": msg}
ErrorResult(msg) == [error |-> TRUE, message |-> msg, data |-> "none"]
\* a response document without an "error" entry
DataResult(doc) == [error |-> FALSE, message |-> Msg(""), data |-> doc]
\* before make_request has returned
NoResult == [error |-> FALSE, message |-> Msg(""), data |-> "none"]

\* a slip: 2 * attempt for 2 ** attempt
ExpBackoff_Linear(a) == 2 * a

\* wait_time = 2 ** attempt
ExpBackoff(a) == 2 ^ a

\* wait_time = 5 * (attempt + 1)
RateLimitBackoff(a) == 5 * (a + 1)

\* APIProvider._parse_response (the document as it is) and
\* TuxAgentCloudProvider._parse_response (the proxy's envelope unwrapped)
ParseResponse(p, body) ==
    IF p = "cloud"
    THEN CASE body = "envelope_data"  -> DataResult("completion")
           [] body = "envelope_error" -> ErrorResult(Msg("envelope error"))
           [] OTHER                   -> DataResult(body)
    ELSE DataResult(body)

\* self._parse_response(response.json()) raises: response.json() on a body
\* that is not JSON (a ValueError), TuxAgentCloudProvider._parse_response on a
\* document without .get (an AttributeError)
ParseRaises(p, body) ==
    \/ body = "not_json"
    \/ p = "cloud" /\ body = "json_array"

\* a slip: every error status retried, not only the server errors
RetryStatus_AnyError(status, a, n) == status >= 400 /\ a < n - 1

\* `response.status_code >= 500 and attempt < max_retries - 1`
RetryStatus(status, a, n) == status >= 500 /\ a < n - 1

\* `if attempt < max_retries - 1` of the except branches
RetryException(a, n) == a < n - 1

\* What a handler of the loop body decides:
\*   [op |-> "continue", wait, le]  sleep(wait); continue
\*   [op |-> "fall", le]            leave the except block, next iteration
\*   [op |-> "return", value, le]   return value
Continue(w, le) == [op |-> "continue", wait |-> w, le |-> le, value |-> None]
Fall(le) == [op |-> "fall", wait |-> 0, le |-> le, value |-> None]
Return(v, le) == [op |-> "return", wait |-> 0, le |-> le, value |-> v]

\* lines 92-105: the body of the `with` block, given a response
OnResponse(p, o, a, n, le) ==
    IF o.status # 200
    THEN IF RetryStatus(o.status, a, n)
         THEN Continue(ExpBackoff(a), le)
         ELSE Return(ErrorResult(MsgApiError(o.status)), le)
    ELSE IF ParseRaises(p, o.body)
         \* the exception is caught by `except Exception`
         THEN IF RetryException(a, n)
              THEN Continue(ExpBackoff(a), "other")
              ELSE Fall("other")
         ELSE Return(ParseResponse(p, o.body), le)

\* lines 123-145: `except httpx.HTTPStatusError as e`
OnHTTPStatusError(status, a, n, le) ==
    CASE status = 401 -> Return(ErrorResult(MsgInvalidKey), le)
      [] status = 403 -> Return(ErrorResult(MsgAccessDenied), le)
      [] status = 429 ->
            IF a < n - 1
            THEN Continue(RateLimitBackoff(a), le)
            ELSE Return(ErrorResult(MsgRateLimit), le)
      [] status >= 500 /\ a < n - 1 -> Continue(ExpBackoff(a), "server")
      [] status >= 500 -> Return(ErrorResult(MsgApiError(status)), "server")
      [] OTHER -> Return(ErrorResult(MsgApiError(status)), le)

\* lines 107-122, 146-152: the other except branches
OnException(o, a, n, le) ==
    LET new == CASE o.exc = "TimeoutException" -> "timeout"
                 [] o.exc = "ConnectError"     -> "connection"
                 [] OTHER                      -> o.text
    IN  IF o.exc = "HTTPStatusError"
        THEN OnHTTPStatusError(o.status, a, n, le)
        ELSE IF RetryException(a, n)
             THEN Continue(ExpBackoff(a), new)
             ELSE Fall(new)

\* One iteration of the retry loop.
LoopBody(p, o, a, n, le) ==
    IF o.kind = "response"
    THEN OnResponse(p, o, a, n, le)
    ELSE OnException(o, a, n, le)

\* lines 154-176: after the loop
AllRetriesFailed(le) ==
    CASE le = "timeout"    -> ErrorResult(MsgTimeout)
      [] le = "connection" -> ErrorResult(MsgConnection)
      [] le = "server"     -> ErrorResult(MsgServer)
      [] le = "network"    -> ErrorResult(MsgNetwork)
      [] le = "dns"        -> ErrorResult(MsgDns)
      [] OTHER             -> ErrorResult(MsgOther(le))

ReqIdle ==
    /\ rq_pc = "idle"
    /\ max_retries = 0
    /\ attempt = 0
    /\ last_error = None
    /\ slept = <<>>
    /\ seen = <<>>
    /\ rq_result = NoResult

ReqInit ==
    /\ provider \in Providers
    /\ ReqIdle

\* make_request(messages, ..., max_retries=n): entry, up to `last_error = None`
make_request(n) ==
    /\ rq_pc = "idle"
    /\ rq_pc' = "loop"
    /\ max_retries' = n
    /\ attempt' = 0
    /\ last_error' = None
    /\ UNCHANGED <<provider, slept, seen, rq_result>>
    /\ UNCHANGED <<toolVars, execVars, extVars>>

\* one pass through the body of `for attempt in range(max_retries)`
Attempt(o) ==
    /\ rq_pc = "loop"
    /\ attempt < max_retries
    /\ LET d == LoopBody(provider, o, attempt, max_retries, last_error)
       IN  /\ seen' = Append(seen, o)
           /\ last_error' = d.le
           /\ slept' = IF d.op = "continue" THEN Append(slept, d.wait) ELSE slept
           /\ IF d.op = "return"
              THEN /\ rq_pc' = "returned"
                   /\ rq_result' = d.value
                   /\ attempt' = attempt
              ELSE /\ rq_pc' = "loop"
                   /\ rq_result' = rq_result
                   /\ attempt' = attempt + 1
    /\ UNCHANGED <<provider, max_retries>>
    /\ UNCHANGED <<toolVars, execVars, extVars>>

\* the loop is exhausted: lines 154-176
Exhausted ==
    /\ rq_pc = "loop"
    /\ attempt >= max_retries
    /\ rq_pc' = "returned"
    /\ rq_result' = AllRetriesFailed(last_error)
    /\ UNCHANGED <<provider, max_retries, attempt, last_error, slept, seen>>
    /\ UNCHANGED <<toolVars, execVars, extVars>>

ReqNext ==
    \/ \E n \in 0 .. (DefaultMaxRetries + MaxExtraRetries) : make_request(n)
    \/ \E o \in Outcomes : Attempt(o)
    \/ Exhausted

\* the provider at rest, for the specifications of the other components
ReqAtRest == provider = "cloud" /\ ReqIdle

(***************************************************************************)
(*                          KimiExecutor.execute                           *)
(***************************************************************************)

\* max_tool_iterations: int = 10
DefaultMaxToolIterations == 10
\* the other values of max_tool_iterations a caller passes: 0 .. MaxIterationsArg
MaxIterationsArg == 2
\* self.conversation.messages[-10:]
HistoryWindow == 10

IterationArgs == (0 .. MaxIterationsArg) \cup {DefaultMaxToolIterations}

\* a text: what an f-string puts before it, and the text itself
Txt(body) == [prefix |-> "", body |-> body]
NoText == Txt("")

UserText == Txt("user question")
AnswerText == Txt("assistant answer")
ThinkingText == Txt("assistant turn with tool calls")
SystemPrompt == Txt("You are TuxAgent, ...")
\* f"Error: {error_msg}"
ErrorStored(m) == [prefix |-> "Error: ", body |-> m]
\* f"I encountered an error: {error_msg}"
ErrorReturned(m) == [prefix |-> "I encountered an error: ", body |-> m]
NoResponseText == Txt("I didn't receive a response. Please try again.")
FinalResponseText ==
    Txt("I've completed the maximum number of tool operations. Here's what I found so far.")
NoApiKeyText == Txt("No API key configured. ...")
FreeLimitText == Txt("You've reached the free tier limit (20 queries/month). ...")
CloudLimitText == Txt("You've reached your monthly query limit. ...")

\* ConversationMessage(role, content, images)
StoredMessage(role, text, images) == [role |-> role, text |-> text, images |-> images]

\* an entry of the in-flight message array
ApiMessage(role, text, images) ==
    [role |-> role, text |-> text, images |-> images, tool_call_id |-> "",
     tool_calls |-> <<>>, length |-> 0, truncated |-> FALSE]

\* the assistant turn of a response, appended as it came: with its tool calls
AssistantTurn(text, calls) ==
    [role |-> "assistant", text |-> text, images |-> FALSE, tool_call_id |-> "",
     tool_calls |-> [i \in 1 .. Len(calls) |-> calls[i].id],
     length |-> 0, truncated |-> FALSE]

\* the last n elements of a sequence: seq[-n:]
LastN(seq, n) == SubSeq(seq, Max(1, Len(seq) - n + 1), Len(seq))

\* KimiExecutor._check_usage_limits
NoLimit == NoText
CheckUsageLimits(mode, has_key, exceeded) ==
    IF mode = "byok"
    THEN IF ~has_key THEN NoApiKeyText ELSE NoLimit
    ELSE IF exceeded
         THEN CASE mode = "free"  -> FreeLimitText
                [] mode = "cloud" -> CloudLimitText
                [] OTHER          -> NoLimit
         ELSE NoLimit

\* KimiExecutor._build_messages
BuildMessages(has_conversation, stored, user_text, images) ==
    <<ApiMessage("system", SystemPrompt, FALSE)>>
    \o (IF has_conversation
        THEN [i \in 1 .. Len(LastN(stored, HistoryWindow)) |->
                ApiMessage(LastN(stored, HistoryWindow)[i].role,
                           LastN(stored, HistoryWindow)[i].text,
                           LastN(stored, HistoryWindow)[i].images)]
        ELSE <<>>)
    \o <<ApiMessage("user", user_text, images)>>

\* a tool call of a response: its id, its function name, its arguments blob
\* (what kind of text it is and, for a JSON object, the map it decodes to),
\* and what the tool function does if it is called
Call(id, name, blob, args, does) ==
    [id |-> id, name |-> name, arguments |-> blob, args |-> args, does |-> does]

EmptyArgs == [k \in {} |-> ""]
FileArgs == [k \in {"file_path"} |-> ArgValue(k)]
CollisionArgs == [k \in {"tool_name", "file_path"} |-> ArgValue(k)]

\* the tool-call lists of the responses of the model
OneCall == <<Call("call_1", "read_file", "json_map", FileArgs, "success")>>
FourCalls ==
    <<Call("call_2", "no_such_tool", "json_map", EmptyArgs, "success"),
      Call("call_3", "read_file", "json_map", FileArgs, "long_output"),
      Call("call_1", "dns_lookup", "not_json", EmptyArgs, "success"),
      Call("call_4", "read_file", "json_map", FileArgs, "failure")>>
NotAMapCalls ==
    <<Call("call_1", "read_file", "json_map", FileArgs, "success"),
      Call("call_2", "read_file", "json_not_map", EmptyArgs, "success")>>
CollisionCalls ==
    <<Call("call_1", "read_file", "json_map", CollisionArgs, "success")>>

ToolCallLists == {OneCall, FourCalls, NotAMapCalls, CollisionCalls}

\* what _make_api_request returns
ProviderResponse(kind, message, content, calls) ==
    [kind |-> kind, message |-> message, content |-> content, tool_calls |-> calls]

ProviderResponses ==
    { ProviderResponse("error", "provider error message", NoText, <<>>),
      ProviderResponse("empty", "", NoText, <<>>),
      ProviderResponse("final", "", AnswerText, <<>>) }
    \cup
    { ProviderResponse("tools", "", ThinkingText, l) : l \in ToolCallLists }

\* a slip: one iteration too many
LoopContinues_OffByOne(i, n) == i <= n

\* `while iteration < max_tool_iterations`
LoopContinues(i, n) == i < n

\* lines 214-217: json.loads of the arguments blob
DecodeArguments(call) ==
    CASE call.arguments = "json_map" -> [ok |-> TRUE, args |-> call.args]
      [] call.arguments = "not_json" -> [ok |-> TRUE, args |-> EmptyArgs]
      \* a JSON value that is no object: `**tool_args` raises TypeError
      [] OTHER                       -> [ok |-> FALSE, args |-> EmptyArgs]

\* lines 242-244: the content of the tool-result message
ResultContent(output) ==
    IF output.length > OutputCap
    THEN [text |-> Txt(output.text), length |-> OutputCap, truncated |-> TRUE]
    ELSE [text |-> Txt(output.text), length |-> output.length, truncated |-> FALSE]

\* a slip: every result tagged with the id of the first call of the turn
ToolResultMessage_FirstId(calls, i, output) ==
    [role |-> "tool", text |-> ResultContent(output).text, images |-> FALSE,
     tool_call_id |-> calls[1].id, tool_calls |-> <<>>,
     length |-> ResultContent(output).length,
     truncated |-> ResultContent(output).truncated]

\* lines 246-250: the tool-result message of the i-th call
ToolResultMessage(calls, i, output) ==
    [role |-> "tool", text |-> ResultContent(output).text, images |-> FALSE,
     tool_call_id |-> calls[i].id, tool_calls |-> <<>>,
     length |-> ResultContent(output).length,
     truncated |-> ResultContent(output).truncated]

\* ToolExecution(tool_name, input_args, result, success)
ToolExecution(name, args, result) ==
    [tool_name |-> name, input_args |-> args, success |-> result.success]

NotReturned == [kind |-> "none", value |-> NoText]
ReturnValue(v) == [kind |-> "return", value |-> v]
\* an exception that leaves execute
Propagated == [kind |-> "raise", value |-> Txt("TypeError")]

\* a store that drops what it is given
AddMessage_Skip(has_conversation, stored, role, text, images) == stored

\* a store that files what it is given as a tool message
AddMessage_AsTool(has_conversation, stored, role, text, images) ==
    IF has_conversation
    THEN Append(stored, StoredMessage("tool", text, images))
    ELSE stored

\* conversation.add_user_message / add_assistant_message, `if self.conversation`
AddMessage(has_conversation, stored, role, text, images) ==
    IF has_conversation
    THEN Append(stored, StoredMessage(role, text, images))
    ELSE stored

\* the thread's document <thread_id>.json as save_to_file leaves it
ThreadDocument(saved_messages, written) == [written |-> written, messages |-> saved_messages]

ExecIdle ==
    /\ ex_pc = "idle"
    /\ conversation = TRUE
    /\ store = <<>>
    /\ tool_executions = <<>>
    /\ messages = <<>>
    /\ iteration = 0
    /\ max_tool_iterations = 0
    /\ responses = <<>>
    /\ tool_calls = <<>>
    /\ tc_index = 0
    /\ results = <<>>
    /\ returned = NotReturned
    /\ total_requests = 0
    /\ total_tool_calls = 0
    /\ document = ThreadDocument(<<>>, FALSE)

\* an earlier exchange of the conversation
EarlierExchange ==
    <<StoredMessage("user", Txt("earlier question"), FALSE),
      StoredMessage("assistant", Txt("earlier answer"), FALSE)>>

\* KimiExecutor.__init__ and set_conversation
ExecInit ==
    /\ ex_pc = "idle"
    /\ conversation \in BOOLEAN
    /\ store \in (IF conversation THEN {<<>>, EarlierExchange} ELSE {<<>>})
    /\ tool_executions = <<>>
    /\ messages = <<>>
    /\ iteration = 0
    /\ max_tool_iterations = 0
    /\ responses = <<>>
    /\ tool_calls = <<>>
    /\ tc_index = 0
    /\ results = <<>>
    /\ returned = NotReturned
    /\ total_requests = 0
    /\ total_tool_calls = 0
    /\ document = ThreadDocument(store, FALSE)

\* execute(user_message, images, max_tool_iterations=n): lines 309-331.
\* config.increment_usage() writes the usage counter of the preferences file,
\* which execute reads only through the gate (the `exceeded` input).
execute(images, n, mode, has_key, exceeded) ==
    /\ ex_pc = "idle"
    /\ LET limit_error == CheckUsageLimits(mode, has_key, exceeded)
       IN  IF limit_error # NoLimit
           THEN /\ ex_pc' = "done"
                /\ returned' = ReturnValue(limit_error)
                /\ UNCHANGED <<store, messages, iteration, max_tool_iterations,
                               total_requests>>
           ELSE /\ ex_pc' = "request"
                /\ returned' = returned
                /\ total_requests' = total_requests + 1
                /\ messages' = BuildMessages(conversation, store, UserText, images)
                /\ store' = AddMessage(conversation, store, "user", UserText, images)
                /\ iteration' = 0
                /\ max_tool_iterations' = n
    /\ UNCHANGED <<conversation, tool_executions, responses, tool_calls, tc_index,
                   results, total_tool_calls, document>>
    /\ UNCHANGED <<reqVars, toolVars, extVars>>

\* one pass of the while loop up to the tool calls: lines 332-366
CallProvider(response) ==
    /\ ex_pc = "request"
    /\ LoopContinues(iteration, max_tool_iterations)
    /\ iteration' = iteration + 1
    /\ responses' = Append(responses, response)
    /\ CASE response.kind = "error" ->
              /\ store' = AddMessage(conversation, store, "assistant",
                                     ErrorStored(response.message), FALSE)
              /\ returned' = ReturnValue(ErrorReturned(response.message))
              /\ ex_pc' = "done"
              /\ UNCHANGED <<messages, tool_calls, tc_index, results>>
         [] response.kind = "empty" ->
              /\ returned' = ReturnValue(NoResponseText)
              /\ ex_pc' = "done"
              /\ UNCHANGED <<store, messages, tool_calls, tc_index, results>>
         [] response.kind = "final" ->
              /\ store' = AddMessage(conversation, store, "assistant",
                                     response.content, FALSE)
              /\ returned' = ReturnValue(response.content)
              /\ ex_pc' = "done"
              /\ UNCHANGED <<messages, tool_calls, tc_index, results>>
         [] OTHER ->
              /\ messages' = Append(messages,
                                    AssistantTurn(response.content, response.tool_calls))
              /\ tool_calls' = response.tool_calls
              /\ tc_index' = 1
              /\ results' = <<>>
              /\ ex_pc' = "tools"
              /\ UNCHANGED <<store, returned>>
    /\ UNCHANGED <<conversation, tool_executions, max_tool_iterations,
                   total_requests, total_tool_calls, document>>
    /\ UNCHANGED <<reqVars, toolVars, extVars>>

\* one pass of `for tool_call in tool_calls` (lines 209-252); after the last
\* one, `messages.extend(tool_results)` (line 372)
ExecuteToolCall ==
    /\ ex_pc = "tools"
    /\ LET call == tool_calls[tc_index]
           decoded == DecodeArguments(call)
           r == execute_tool(functions, workspace, token_context,
                             call.name, decoded.args, call.does)
       IN  IF ~decoded.ok \/ r.res.kind = "raise"
           THEN /\ returned' = Propagated
                /\ ex_pc' = "done"
                /\ UNCHANGED <<tool_executions, messages, tc_index, results,
                               total_tool_calls>>
           ELSE /\ total_tool_calls' = total_tool_calls + 1
                /\ tool_executions' =
                      IF conversation
                      THEN Append(tool_executions,
                                  ToolExecution(call.name, decoded.args, r.res))
                      ELSE tool_executions
                /\ LET out == Append(results,
                                     ToolResultMessage(tool_calls, tc_index, r.res.output))
                   IN  IF tc_index = Len(tool_calls)
                       THEN /\ messages' = messages \o out
                            /\ results' = out
                            /\ tc_index' = tc_index
                            /\ ex_pc' = "request"
                       ELSE /\ results' = out
                            /\ tc_index' = tc_index + 1
                            /\ ex_pc' = "tools"
                            /\ messages' = messages
                /\ returned' = returned
    /\ UNCHANGED <<conversation, store, iteration, max_tool_iterations, responses,
                   tool_calls, total_requests, document>>
    /\ UNCHANGED <<reqVars, toolVars, extVars>>

\* the loop condition fails: lines 374-378
MaxIterationsReached ==
    /\ ex_pc = "request"
    /\ ~LoopContinues(iteration, max_tool_iterations)
    /\ store' = AddMessage(conversation, store, "assistant", FinalResponseText, FALSE)
    /\ returned' = ReturnValue(FinalResponseText)
    /\ ex_pc' = "done"
    /\ UNCHANGED <<conversation, tool_executions, messages, iteration,
                   max_tool_iterations, responses, tool_calls, tc_index, results,
                   total_requests, total_tool_calls, document>>
    /\ UNCHANGED <<reqVars, toolVars, extVars>>

\* the rest of Ask's body once execute has returned (dbus_service.py:104-107):
\* update_thread_after_message calls _save_thread_conversation, which writes the
\* current conversation to the thread's document; an exception out of execute
\* skips it
_save_thread_conversation ==
    /\ ex_pc = "done"
    /\ returned.kind # "raise"
    /\ ~document.written
    /\ document' = ThreadDocument(IF conversation THEN store ELSE document.messages, TRUE)
    /\ UNCHANGED <<ex_pc, conversation, store, tool_executions, messages, iteration,
                   max_tool_iterations, responses, tool_calls, tc_index, results,
                   returned, total_requests, total_tool_calls>>
    /\ UNCHANGED <<reqVars, toolVars, extVars>>

ExecNext ==
    \/ \E images \in BOOLEAN, n \in IterationArgs, mode \in {"free", "cloud", "byok"},
          has_key \in BOOLEAN, exceeded \in BOOLEAN :
          execute(images, n, mode, has_key, exceeded)
    \/ \E response \in ProviderResponses : CallProvider(response)
    \/ ExecuteToolCall
    \/ MaxIterationsReached
    \/ _save_thread_conversation

(***************************************************************************)
(*              read_file  (src/src/core/tools/unix/file_ops.py)           *)
(***************************************************************************)

\* `threshold = 15000` and `target_tokens = 10000`: the limits without a context
StaticThreshold == 15000
StaticTarget == 10000
\* `safe_lines = max(100, ...)`
MinSafeLines == 100
\* `max_lines = 500` of the fallback when token counting fails
FallbackLines == 500

Min(a, b) == IF a <= b THEN a ELSE b

\* A file: `lines` lines, of which the first `head` have `head_len` characters
\* and the others `tail_len` characters.
Document(lines, head, head_len, tail_len) ==
    [lines |-> lines, head |-> head, head_len |-> head_len, tail_len |-> tail_len]

Documents ==
    { Document(1, 0, 0, 10),
      Document(50, 0, 0, 100),
      Document(500, 0, 0, 10),
      Document(3, 0, 0, 10),
      Document(250, 0, 0, 300),
      Document(450, 0, 0, 300),
      Document(250, 100, 1000, 10),
      Document(3, 0, 0, 0) }

\* len('\n'.join(lines[lo:hi])) for the 0-indexed positions lo <= hi
JoinedLength(doc, lo, hi) ==
    IF hi <= lo THEN 0
    ELSE LET in_head == Max(0, Min(hi, doc.head) - lo)
             in_tail == (hi - lo) - in_head
         IN  in_head * doc.head_len + in_tail * doc.tail_len + (hi - lo - 1)

\* len(content)
ContentLength(doc) == JoinedLength(doc, 0, doc.lines)

\* `import tiktoken` raises ImportError; or it succeeds and the encoder encodes
\* every text; or the encoder raises on a text that holds the last line (a
\* special token in it); or get_encoding raises on every call
Tokenizers == {"ImportError", "cl100k_base", "raises_on_content", "raises"}

\* len(enc.encode(text)): the encoder is a library; the model's encoder yields one
\* token for every three characters, a density other than the estimate's four
EncodeLength(chars) == (chars + 2) \div 3

\* len(content) // 4
EstimateTokens(chars) == chars \div 4

\* the contexts ToolExecutor.set_token_context builds: a roomy and an exhausted one
ReadContexts ==
    {NoContext} \cup
    { [set |-> TRUE, current_tokens |-> c, max_tokens |-> DefaultMaxTokens,
       available_tokens |-> AvailableTokens(c, DefaultMaxTokens)] : c \in {0, 31000} }

\* int(available_tokens * 0.6)
SixtyPercent(available_tokens) == (available_tokens * 6) \div 10

\* lines[start_pos:end_pos] as positions <<lo, hi>>: Python clips both ends to the
\* list and counts a negative end from the end of the list
Slice(start_pos, end_pos, total_lines) ==
    LET lo == Min(start_pos, total_lines)
        hi == IF end_pos < 0 THEN Max(0, total_lines + end_pos) ELSE Min(end_pos, total_lines)
    IN  [lo |-> lo, hi |-> Max(lo, hi)]

\* an optional integer argument: left at its default None, or given
Omitted == [given |-> FALSE, value |-> 0]

Given(value) == [given |-> TRUE, value |-> value]

NoHint == [has |-> FALSE, start_line |-> 0, limit_lines |-> 0]

Hint(start_line, limit_lines) ==
    [has |-> TRUE, start_line |-> start_line, limit_lines |-> limit_lines]

ReadFailure ==
    [success |-> FALSE, start_line |-> 0, end_line |-> 0, total_lines |-> 0,
     lines_shown |-> 0, chars |-> 0, truncated |-> FALSE, hint |-> NoHint,
     hint_end |-> 0]

\* the file_path argument, character by character
FilePath == <<"n", "o", "t", "e", "s", ".", "t", "x", "t">>

\* len(str(n)) for the line numbers and token counts of the model
Digits(n) ==
    IF n < 10 THEN 1 ELSE IF n < 100 THEN 2 ELSE IF n < 1000 THEN 3
    ELSE IF n < 10000 THEN 4 ELSE IF n < 100000 THEN 5 ELSE IF n < 1000000 THEN 6 ELSE 7

\* len(f"{n:,}")
DigitsWithCommas(n) == Digits(n) + (Digits(n) - 1) \div 3

\* len(f"{start_pos + 1}-{end_pos} of {total_lines}")
RangeLength(start_pos, end_pos, total_lines) ==
    Digits(start_pos + 1) + Len(<<"-">>) + Digits(end_pos)
        + Len(<<" ", "o", "f", " ">>) + Digits(total_lines)

\* len(f"📄 {file_path} (lines {range}):\n"), what `output` puts before the content
HeaderLength(start_pos, end_pos, total_lines) ==
    2 + Len(FilePath) + 8 + RangeLength(start_pos, end_pos, total_lines) + 3

\* the length of the continuation hint of the auto branch up to the end of the
\* number after `start_line=`:
\*   "\n\n📄 Document truncated - showing lines {range}."
\*   "\nActual tokens: {actual_tokens:,} → truncated to ~{shown:,} tokens."
\*   "\nTo read more: read_file('{file_path}', start_line={end_pos + 1}"
HintPrefixLength(start_pos, end_pos, total_lines, actual_tokens, shown_tokens) ==
    39 + RangeLength(start_pos, end_pos, total_lines) + 1
       + 16 + DigitsWithCommas(actual_tokens) + 17 + DigitsWithCommas(shown_tokens) + 8
       + 26 + Len(FilePath) + 14 + Digits(end_pos + 1)

\* the same for the hint of the fallback branch:
\*   "\n\n📄 Document truncated - showing lines {range}."
\*   "\nEstimated {estimated_tokens:,} tokens (tokenizer unavailable). To read more: "
\*   "read_file('{file_path}', start_line={end_pos + 1}"
FallbackHintPrefixLength(start_pos, end_pos, total_lines, estimated_tokens) ==
    39 + RangeLength(start_pos, end_pos, total_lines) + 1
       + 11 + DigitsWithCommas(estimated_tokens) + 47
       + 11 + Len(FilePath) + 14 + Digits(end_pos + 1)

\* the window the auto-truncation branch chooses: end_pos, truncated, the hint
\* and the length of the hint's text up to its start_line
AutoWindow(doc, tokenizer, context, start_pos) ==
    LET total_lines == doc.lines
        actual_tokens == IF tokenizer = "cl100k_base"
                         THEN EncodeLength(ContentLength(doc))
                         ELSE EstimateTokens(ContentLength(doc))
        threshold == IF context.set THEN context.available_tokens ELSE StaticThreshold
        target_tokens == IF context.set
                         THEN Min(SixtyPercent(context.available_tokens), actual_tokens)
                         ELSE StaticTarget
        \* int(target_tokens / (actual_tokens / total_lines))
        safe_lines == Max(MinSafeLines, (target_tokens * total_lines) \div actual_tokens)
        end_pos == Min(start_pos + safe_lines, total_lines)
        \* int(safe_lines * tokens_per_line)
        shown_tokens == (safe_lines * actual_tokens) \div total_lines
        fallback_end == Min(start_pos + FallbackLines, total_lines)
        estimated_tokens == EstimateTokens(ContentLength(doc))
    IN  IF tokenizer \in {"raises_on_content", "raises"}
        THEN \* `except Exception`: the estimate against the static threshold
             IF estimated_tokens > StaticThreshold
             THEN [end_pos |-> fallback_end, truncated |-> TRUE,
                   hint |-> Hint(fallback_end + 1, FallbackLines),
                   hint_length |-> FallbackHintPrefixLength(start_pos, fallback_end,
                                                            total_lines, estimated_tokens)]
             ELSE [end_pos |-> total_lines, truncated |-> FALSE, hint |-> NoHint,
                   hint_length |-> 0]
        ELSE IF actual_tokens > threshold
        THEN [end_pos |-> end_pos, truncated |-> TRUE, hint |-> Hint(end_pos + 1, safe_lines),
              hint_length |-> HintPrefixLength(start_pos, end_pos, total_lines,
                                               actual_tokens, shown_tokens)]
        ELSE [end_pos |-> total_lines, truncated |-> FALSE, hint |-> NoHint,
              hint_length |-> 0]

\* the window of the branch with a limit or with auto_truncate off
ExplicitWindow(doc, start_pos, limit_lines) ==
    [end_pos |-> IF ~limit_lines.given THEN doc.lines
                 ELSE Min(start_pos + limit_lines.value, doc.lines),
     truncated |-> FALSE, hint |-> NoHint, hint_length |-> 0]

\* read_file(file_path, start_line, limit_lines, auto_truncate, _context) on a file
\* that exists, is readable and is below the size limit
read_file(doc, tokenizer, context, start_line, limit_lines, auto_truncate) ==
    LET total_lines == doc.lines
        start_pos == IF ~start_line.given THEN 0 ELSE Max(0, start_line.value - 1)
        auto == auto_truncate /\ ~limit_lines.given
        w == IF auto THEN AutoWindow(doc, tokenizer, context, start_pos)
             ELSE ExplicitWindow(doc, start_pos, limit_lines)
        sel == Slice(start_pos, w.end_pos, total_lines)
    IN  IF ContentLength(doc) < total_lines
        THEN ReadFailure   \* `if not content.strip()`: nothing but line breaks
        ELSE IF \/ tokenizer = "raises"
                \/ tokenizer = "raises_on_content" /\ sel.lo < sel.hi /\ sel.hi = total_lines
        THEN ReadFailure   \* the encoder raises at the final count: the outer `except Exception`
        ELSE [success |-> TRUE, start_line |-> start_pos + 1, end_line |-> w.end_pos,
              total_lines |-> total_lines, lines_shown |-> sel.hi - sel.lo,
              chars |-> JoinedLength(doc, sel.lo, sel.hi),
              truncated |-> w.truncated, hint |-> w.hint,
              \* where in `output` the number after `start_line=` ends
              hint_end |-> IF w.hint.has
                           THEN HeaderLength(start_pos, w.end_pos, total_lines)
                                + JoinedLength(doc, sel.lo, sel.hi) + w.hint_length
                           ELSE 0]

StartLineArgs(doc) ==
    {Omitted} \cup {Given(v) : v \in {0, 1, 2, doc.lines + 2}}

LimitLinesArgs ==
    {Omitted} \cup {Given(v) : v \in {-1, 0, 2, MinSafeLines}}

NoReadCall ==
    [made |-> FALSE, start_line |-> Omitted, limit_lines |-> Omitted, auto_truncate |-> TRUE]

ReadIdle ==
    /\ rf_doc = Document(1, 0, 0, 10)
    /\ rf_tokenizer = "ImportError"
    /\ rf_context = NoContext
    /\ rf_call = NoReadCall
    /\ rf_result = ReadFailure
    /\ rf_hint = NoHint
    /\ rf_chain = <<>>

ReadInit ==
    /\ rf_doc \in Documents
    /\ rf_tokenizer \in Tokenizers
    /\ rf_context \in ReadContexts
    /\ rf_call = NoReadCall
    /\ rf_result = ReadFailure
    /\ rf_hint = NoHint
    /\ rf_chain = <<>>

\* a reading process starts with a read from line 1 that names no limit
StartsProcess(start_line, limit_lines, auto_truncate) ==
    start_line \in {Omitted, Given(1)} /\ ~limit_lines.given /\ auto_truncate

\* One call of read_file by the model's tool call.
ReadFile(start_line, limit_lines, auto_truncate) ==
    /\ LET r == read_file(rf_doc, rf_tokenizer, rf_context, start_line, limit_lines, auto_truncate)
       IN  /\ rf_result' = r
           /\ rf_hint' = IF r.success /\ StartsProcess(start_line, limit_lines, auto_truncate)
                         THEN r.hint ELSE NoHint
           /\ rf_chain' = IF r.success /\ StartsProcess(start_line, limit_lines, auto_truncate)
                          THEN <<r>> ELSE <<>>
    /\ rf_call' = [made |-> TRUE, start_line |-> start_line, limit_lines |-> limit_lines,
                   auto_truncate |-> auto_truncate]
    /\ UNCHANGED <<rf_doc, rf_tokenizer, rf_context>>
    /\ UNCHANGED <<reqVars, toolVars, execVars, svcVars, threadVars>>

\* The next read of a reading process: read_file with the start_line and the
\* limit_lines of the hint the read before it returned.
FollowHint ==
    /\ rf_chain # <<>>
    /\ rf_hint.has
    /\ LET r == read_file(rf_doc, rf_tokenizer, rf_context,
                          Given(rf_hint.start_line), Given(rf_hint.limit_lines), TRUE)
       IN  /\ rf_result' = r
           /\ rf_hint' = r.hint
           /\ rf_chain' = Append(rf_chain, r)
    /\ rf_call' = [made |-> TRUE, start_line |-> Given(rf_hint.start_line),
                   limit_lines |-> Given(rf_hint.limit_lines), auto_truncate |-> TRUE]
    /\ UNCHANGED <<rf_doc, rf_tokenizer, rf_context>>
    /\ UNCHANGED <<reqVars, toolVars, execVars, svcVars, threadVars>>

ReadNext ==
    \/ \E s \in StartLineArgs(rf_doc), l \in LimitLinesArgs, a \in BOOLEAN : ReadFile(s, l, a)
    \/ FollowHint

(***************************************************************************)
(*    TuxAgentDBusService.Ask / AskWithScreenshot                          *)
(*    (src/src/daemon/dbus_service.py)                                     *)
(***************************************************************************)

\* The number of method invocations in flight at once.
NumInvocations == 2

Invocations == 1 .. NumInvocations

Methods == {"Ask", "AskWithScreenshot"}

\* How the tool call loop of KimiExecutor.execute ends: the final content, an
\* error response of the Provider, a response without choices, the iteration cap,
\* or the TypeError of the unguarded tool call.
ExecuteOutcomes == {"content", "error", "empty", "fallback", "raise"}

ServiceMessage(role, inv, images, text) ==
    [role |-> role, inv |-> inv, images |-> images, text |-> text]

NoResponse == [kind |-> "none", text |-> ""]

Response(text) == [kind |-> "return", text |-> text]

\* what execute returns for each way the loop ends
ReturnedText(outcome) ==
    CASE outcome = "content" -> "content"
      [] outcome = "error" -> "I encountered an error: "
      [] outcome = "empty" -> "I didn't receive a response. Please try again."
      [] outcome = "fallback" -> "I've completed the maximum number of tool operations."

\* what the conversation stores as the assistant message for each way the loop
\* ends; a response without choices and an exception store none
StoredText(outcome) ==
    CASE outcome = "content" -> "content"
      [] outcome = "error" -> "Error: "
      [] outcome = "fallback" -> "I've completed the maximum number of tool operations."

StoresAssistant(outcome) == outcome \in {"content", "error", "fallback"}

\* The number of conversation objects CreateThread and SwitchThread make (one
\* per thread created or switched to); they are numbered from 2, object 1 is the
\* conversation of the thread __init__ created.
MaxObjects == 2

NextObject(object) == Max(object, 1) + 1

\* The number of threads the service holds.
MaxServiceThreads == 2

\* what an invocation did: the object and thread current when execute began, the
\* objects its user and assistant messages went to, the thread whose metadata it
\* updated; 0 where it did not
NoTrace == [began_object |-> 0, began_thread |-> 0, user_object |-> 0,
            assistant_object |-> 0, updated_thread |-> 0]

SvcIdle ==
    /\ sv_lock = 0
    /\ sv_pc = [i \in Invocations |-> "idle"]
    /\ sv_method = [i \in Invocations |-> "Ask"]
    /\ sv_conversation = TRUE
    /\ sv_store = <<>>
    /\ sv_response = [i \in Invocations |-> NoResponse]
    /\ sv_count = <<0>>
    /\ sv_current = 1
    /\ sv_object = 1
    /\ sv_cleared = FALSE
    /\ sv_files = << <<>> >>
    /\ sv_trace = [i \in Invocations |-> NoTrace]

\* After __init__: the lock is free; the executor has a conversation, the one of
\* the thread __init__ created, unless the service was started with a current
\* thread id loaded from the metadata file.
SvcInit ==
    /\ sv_lock = 0
    /\ sv_pc = [i \in Invocations |-> "idle"]
    /\ sv_method = [i \in Invocations |-> "Ask"]
    /\ sv_conversation \in BOOLEAN
    /\ sv_store = <<>>
    /\ sv_response = [i \in Invocations |-> NoResponse]
    /\ sv_count = <<0>>
    /\ sv_current = 1
    /\ sv_object = (IF sv_conversation THEN 1 ELSE 0)
    /\ sv_cleared = FALSE
    /\ sv_files = << <<>> >>
    /\ sv_trace = [i \in Invocations |-> NoTrace]

\* A client calls the method; the handler thread arrives at `with self._lock`.
Invoke(i, method) ==
    /\ sv_pc[i] = "idle"
    /\ sv_pc' = [sv_pc EXCEPT ![i] = "lock"]
    /\ sv_method' = [sv_method EXCEPT ![i] = method]
    /\ UNCHANGED <<sv_lock, sv_conversation, sv_store, sv_response, sv_count>>
    /\ UNCHANGED <<sv_current, sv_object, sv_cleared, sv_files, sv_trace>>
    /\ UNCHANGED <<reqVars, toolVars, execVars, readVars, threadVars>>

\* `with self._lock:` threading.Lock.acquire
Acquire(i) ==
    /\ sv_pc[i] = "lock"
    /\ sv_lock = 0
    /\ sv_lock' = i
    /\ sv_pc' = [sv_pc EXCEPT ![i] = "execute"]
    /\ UNCHANGED <<sv_method, sv_conversation, sv_store, sv_response, sv_count>>
    /\ UNCHANGED <<sv_current, sv_object, sv_cleared, sv_files, sv_trace>>
    /\ UNCHANGED <<reqVars, toolVars, execVars, readVars, threadVars>>

\* execute up to the tool call loop: the usage limit check returns at once,
\* otherwise the user message is added to the conversation.
ExecuteBegin(i, limited) ==
    /\ sv_pc[i] = "execute"
    /\ IF limited
       THEN /\ sv_response' = [sv_response EXCEPT ![i] = Response("limit_error")]
            /\ sv_pc' = [sv_pc EXCEPT ![i] = "update"]
            /\ sv_trace' = [sv_trace EXCEPT ![i].began_object = sv_object,
                                            ![i].began_thread = sv_current]
            /\ UNCHANGED sv_store
       ELSE /\ sv_store' = IF sv_conversation
                           THEN Append(sv_store,
                                       ServiceMessage("user", i, sv_method[i] = "AskWithScreenshot",
                                                     "question"))
                           ELSE sv_store
            /\ sv_pc' = [sv_pc EXCEPT ![i] = "loop"]
            /\ sv_trace' = [sv_trace EXCEPT ![i].began_object = sv_object,
                                            ![i].began_thread = sv_current,
                                            ![i].user_object = sv_object]
            /\ UNCHANGED sv_response
    /\ UNCHANGED <<sv_lock, sv_method, sv_conversation, sv_count>>
    /\ UNCHANGED <<sv_current, sv_object, sv_cleared, sv_files>>
    /\ UNCHANGED <<reqVars, toolVars, execVars, readVars, threadVars>>

\* The tool call loop of execute ends.  An exception is caught by the method's
\* `except Exception`, which returns "Error: ..." without the thread update.
ExecuteEnd(i, outcome) ==
    /\ sv_pc[i] = "loop"
    /\ IF outcome = "raise"
       THEN /\ sv_response' = [sv_response EXCEPT ![i] = Response("Error: ")]
            /\ sv_pc' = [sv_pc EXCEPT ![i] = "release"]
            /\ UNCHANGED <<sv_store, sv_trace>>
       ELSE /\ sv_response' = [sv_response EXCEPT ![i] = Response(ReturnedText(outcome))]
            /\ sv_pc' = [sv_pc EXCEPT ![i] = "update"]
            /\ sv_store' = IF sv_conversation /\ StoresAssistant(outcome)
                           THEN Append(sv_store,
                                       ServiceMessage("assistant", i, FALSE, StoredText(outcome)))
                           ELSE sv_store
            /\ sv_trace' = IF StoresAssistant(outcome)
                           THEN [sv_trace EXCEPT ![i].assistant_object = sv_object]
                           ELSE sv_trace
    /\ UNCHANGED <<sv_lock, sv_method, sv_conversation, sv_count>>
    /\ UNCHANGED <<sv_current, sv_object, sv_cleared, sv_files>>
    /\ UNCHANGED <<reqVars, toolVars, execVars, readVars, threadVars>>

\* thread_manager.update_thread_after_message(user_message=question,
\* assistant_message=response): both are non-empty here, each counts once for
\* the thread that is current now; _save_thread_conversation then writes the
\* current conversation to that thread's document
UpdateThread(i) ==
    /\ sv_pc[i] = "update"
    /\ sv_count' = [sv_count EXCEPT ![sv_current] = @ + 2]
    /\ sv_files' = IF sv_conversation
                   THEN [sv_files EXCEPT ![sv_current] = sv_store]
                   ELSE sv_files
    /\ sv_trace' = [sv_trace EXCEPT ![i].updated_thread = sv_current]
    /\ sv_pc' = [sv_pc EXCEPT ![i] = "release"]
    /\ UNCHANGED <<sv_lock, sv_method, sv_conversation, sv_store, sv_response>>
    /\ UNCHANGED <<sv_current, sv_object, sv_cleared>>
    /\ UNCHANGED <<reqVars, toolVars, execVars, readVars, threadVars>>

\* leaving the `with` block: threading.Lock.release, then the method returns
Release(i) ==
    /\ sv_pc[i] = "release"
    /\ sv_lock' = 0
    /\ sv_pc' = [sv_pc EXCEPT ![i] = "done"]
    /\ UNCHANGED <<sv_method, sv_conversation, sv_store, sv_response, sv_count>>
    /\ UNCHANGED <<sv_current, sv_object, sv_cleared, sv_files, sv_trace>>
    /\ UNCHANGED <<reqVars, toolVars, execVars, readVars, threadVars>>

\* CreateThread (lines 170-177), without the lock: create_thread makes a new
\* thread with an empty conversation current, set_conversation hands that
\* conversation to the executor.
CreateThread ==
    /\ Len(sv_count) < MaxServiceThreads
    /\ NextObject(sv_object) <= MaxObjects + 1
    /\ sv_count' = Append(sv_count, 0)
    /\ sv_files' = Append(sv_files, <<>>)
    /\ sv_current' = Len(sv_count) + 1
    /\ sv_object' = NextObject(sv_object)
    /\ sv_conversation' = TRUE
    /\ sv_store' = <<>>
    /\ sv_cleared' = FALSE
    /\ UNCHANGED <<sv_lock, sv_pc, sv_method, sv_response, sv_trace>>
    /\ UNCHANGED <<reqVars, toolVars, execVars, readVars, threadVars>>

\* SwitchThread (lines 179-187), without the lock: for a known id switch_thread
\* loads the thread's document into a new conversation (an empty one when there
\* is no document), set_conversation hands it to the executor; an unknown id
\* changes nothing.
SwitchThread(thread_id) ==
    /\ NextObject(sv_object) <= MaxObjects + 1
    /\ IF thread_id \in DOMAIN sv_count
       THEN /\ sv_current' = thread_id
            /\ sv_object' = NextObject(sv_object)
            /\ sv_conversation' = TRUE
            /\ sv_store' = sv_files[thread_id]
            /\ sv_cleared' = FALSE
       ELSE UNCHANGED <<sv_current, sv_object, sv_conversation, sv_store, sv_cleared>>
    /\ UNCHANGED <<sv_lock, sv_pc, sv_method, sv_response, sv_count, sv_files, sv_trace>>
    /\ UNCHANGED <<reqVars, toolVars, execVars, readVars, threadVars>>

\* ClearConversation (lines 195-200), without the lock: the current conversation,
\* if there is one, drops its messages.
ClearConversation ==
    /\ sv_conversation
    /\ sv_store' = <<>>
    /\ sv_cleared' = TRUE
    /\ UNCHANGED <<sv_lock, sv_pc, sv_method, sv_conversation, sv_response, sv_count,
                   sv_current, sv_object, sv_files, sv_trace>>
    /\ UNCHANGED <<reqVars, toolVars, execVars, readVars, threadVars>>

SvcNext ==
    \/ \E i \in Invocations, m \in Methods : Invoke(i, m)
    \/ \E i \in Invocations : Acquire(i)
    \/ \E i \in Invocations, limited \in BOOLEAN : ExecuteBegin(i, limited)
    \/ \E i \in Invocations, o \in ExecuteOutcomes : ExecuteEnd(i, o)
    \/ \E i \in Invocations : UpdateThread(i)
    \/ \E i \in Invocations : Release(i)
    \/ CreateThread
    \/ \E t \in 1 .. MaxServiceThreads : SwitchThread(t)
    \/ ClearConversation

(***************************************************************************)
(*              ThreadManager  (src/src/core/thread_manager.py)            *)
(***************************************************************************)

\* The number of thread ids the model hands out, the last clock reading, and
\* the message_count up to which exchanges are followed.
MaxThreads == 2
MaxNow == 13
MaxMessageCount == 6

\* `metadata.message_count >= 4`
TitleThreshold == 4

\* A text is the sequence of its words (str.split()); a title is the sequence of
\* the words that " ".join puts together.
Placeholder == <<"New", "Chat">>

SessionTitle == <<"TuxAgent", "Session">>

Vocabulary == {"profile", "how", "new", "chat", "the", "hi", "vim"}

\* the keywords of _generate_thread_title that occur inside a word (`in` on
\* strings is a substring test: "profile" holds "file")
KeywordsIn(word) ==
    CASE word = "profile" -> {"file"}
      [] word = "how" -> {"how"}
      [] OTHER -> {}

\* len(word) > 2
LongerThanTwo(word) == word # "hi"

\* word.capitalize()
Capitalize(word) ==
    CASE word = "profile" -> "Profile"
      [] word = "how" -> "How"
      [] word = "new" -> "New"
      [] word = "chat" -> "Chat"
      [] word = "the" -> "The"
      [] word = "hi" -> "Hi"
      [] word = "vim" -> "Vim"

\* the if / elif chain of _generate_thread_title, in its order
TitleCategories ==
    << [keywords |-> {"install", "setup", "configure"}, title |-> <<"Installation", "Help">>],
       [keywords |-> {"file", "folder", "directory", "find"}, title |-> <<"File", "Operations">>],
       [keywords |-> {"network", "wifi", "internet", "connection"}, title |-> <<"Network", "Help">>],
       [keywords |-> {"permission", "sudo", "root", "access"}, title |-> <<"Permissions", "Help">>],
       [keywords |-> {"what", "how", "why", "explain"}, title |-> <<"Question", "&", "Answer">>],
       [keywords |-> {"error", "problem", "fix", "broken"}, title |-> <<"Troubleshooting">>],
       [keywords |-> {"screenshot", "screen", "window"}, title |-> <<"Screen", "Analysis">>] >>

SkipWords ==
    {"the", "a", "an", "and", "or", "but", "in", "on", "at", "to", "for", "of", "with",
     "by", "can", "you", "i", "me", "my", "please", "help"}

\* seq[:n]
Prefix(seq, n) == SubSeq(seq, 1, Min(n, Len(seq)))

_generate_thread_title(first_message) ==
    LET hits == {c \in DOMAIN TitleCategories :
                    \E i \in DOMAIN first_message :
                        KeywordsIn(first_message[i]) \cap TitleCategories[c].keywords # {}}
        first == CHOOSE c \in hits : \A d \in hits : c <= d
        Meaningful(word) == word \notin SkipWords /\ LongerThanTwo(word)
        kept == SelectSeq(Prefix(first_message, 4), Meaningful)
        words == [i \in DOMAIN kept |-> Capitalize(kept[i])]
    IN  IF hits # {} THEN TitleCategories[first].title
        ELSE IF Len(words) >= 2 THEN Prefix(words, 3)
        ELSE IF Len(words) = 1 THEN <<words[1], "Help">>
        ELSE <<"General", "Help">>

\* ThreadMetadata, without created_at and thread_type, which nothing reads
ThreadMetadata(title, message_count, last_preview, pinned, last_message_at) ==
    [title |-> title, message_count |-> message_count, last_preview |-> last_preview,
     pinned |-> pinned, last_message_at |-> last_message_at]

\* the user messages and the assistant messages of the exchanges
UserMessages == {<<>>, <<"new", "chat">>, <<"vim", "profile">>}

AssistantMessages == {<<>>, <<"ok">>}

Titles == {<<"Vim", "Help">>}

\* `user_message or "Chat"`
TitleSource(user_message) == IF user_message # <<>> THEN user_message ELSE <<"chat">>

\* The sort key of get_thread_list: (not t.pinned, -t.last_message_at.timestamp()),
\* compared as Python compares tuples, with False < True.
KeyBefore_Ascending(a, b) ==
    \/ a.pinned /\ ~b.pinned
    \/ a.pinned = b.pinned /\ a.last_message_at < b.last_message_at

KeyBefore(a, b) ==
    \/ a.pinned /\ ~b.pinned
    \/ a.pinned = b.pinned /\ -a.last_message_at < -b.last_message_at

\* list.sort is stable: an element goes behind every element whose key is not
\* greater than its own
RECURSIVE StableInsert(_, _, _)
StableInsert(sorted, id, metadata) ==
    IF sorted = <<>> THEN <<id>>
    ELSE IF KeyBefore(metadata[id], metadata[Head(sorted)])
    THEN <<id>> \o sorted
    ELSE <<Head(sorted)>> \o StableInsert(Tail(sorted), id, metadata)

RECURSIVE StableSort(_, _)
StableSort(ids, metadata) ==
    IF ids = <<>> THEN <<>>
    ELSE StableInsert(StableSort(Prefix(ids, Len(ids) - 1), metadata), ids[Len(ids)], metadata)

\* get_thread_list, as the ids ListThreads returns; `order` is the order of the
\* dict thread_metadata
get_thread_list(metadata, order) == StableSort(order, metadata)

\* the index documents the manager is constructed from: none, and one with the
\* threads T1 (pinned, last = 5), T2 (unpinned, last = 10), T3 (pinned, last = 1)
NoIndex == [threads |-> <<>>, order |-> <<>>, current_thread_id |-> 0]

StoredIndex(current_thread_id) ==
    [threads |-> (1 :> ThreadMetadata(Placeholder, 0, <<>>, TRUE, 5)) @@
                 (2 :> ThreadMetadata(Placeholder, 2, <<"hi">>, FALSE, 10)) @@
                 (3 :> ThreadMetadata(SessionTitle, 4, <<"hi">>, TRUE, 1)),
     order |-> <<1, 2, 3>>,
     current_thread_id |-> current_thread_id]

IndexDocuments == {NoIndex, StoredIndex(2)}

\* an operation: its name, whether it took effect, whether it called
\* _generate_thread_title, and the list it returned
Operation(name, ok, generated, listed) ==
    [name |-> name, ok |-> ok, generated |-> generated, listed |-> listed]

NoOperation == Operation("none", TRUE, FALSE, <<>>)

ThreadIdle ==
    /\ th_metadata = <<>>
    /\ th_order = <<>>
    /\ th_current = 0
    /\ th_conversation = 0
    /\ th_now = 11
    /\ th_next = 1
    /\ th_last = NoOperation

\* ThreadManager.__init__ and _load_metadata: the index document gives the
\* metadata and current_thread_id; current_conversation stays None
ThreadInit ==
    \E doc \in IndexDocuments :
        /\ th_metadata = doc.threads
        /\ th_order = doc.order
        /\ th_current = doc.current_thread_id
        /\ th_conversation = 0
        /\ th_now = 11
        /\ th_next = Len(doc.order) + 1
        /\ th_last = NoOperation

create_thread(title) ==
    /\ th_next <= MaxThreads
    /\ th_now < MaxNow
    /\ th_metadata' = th_metadata @@ (th_next :> ThreadMetadata(title, 0, <<>>, FALSE, th_now))
    /\ th_order' = Append(th_order, th_next)
    /\ th_current' = th_next
    /\ th_conversation' = th_next
    /\ th_now' = th_now + 1
    /\ th_next' = th_next + 1
    /\ th_last' = Operation("create_thread", TRUE, FALSE, <<>>)
    /\ UNCHANGED <<reqVars, toolVars, execVars, readVars, svcVars>>

switch_thread(thread_id) ==
    /\ IF thread_id \notin DOMAIN th_metadata
       THEN /\ th_last' = Operation("switch_thread", FALSE, FALSE, <<>>)
            /\ UNCHANGED <<th_current, th_conversation>>
       ELSE /\ th_current' = thread_id
            /\ th_conversation' = thread_id
            /\ th_last' = Operation("switch_thread", TRUE, FALSE, <<>>)
    /\ UNCHANGED <<th_metadata, th_order, th_now, th_next>>
    /\ UNCHANGED <<reqVars, toolVars, execVars, readVars, svcVars>>

\* the metadata update_thread_after_message leaves for the current thread
UpdatedMetadata(old, user_message, assistant_message, now) ==
    LET count == old.message_count + (IF user_message # <<>> THEN 1 ELSE 0)
                                   + (IF assistant_message # <<>> THEN 1 ELSE 0)
        generates == old.title = Placeholder /\ assistant_message # <<>> /\ count >= TitleThreshold
    IN  [title |-> IF generates THEN _generate_thread_title(TitleSource(user_message))
                   ELSE old.title,
         message_count |-> count,
         last_preview |-> IF user_message # <<>> THEN user_message ELSE old.last_preview,
         pinned |-> old.pinned,
         last_message_at |-> now]

GeneratesTitle(old, user_message, assistant_message) ==
    /\ old.title = Placeholder
    /\ assistant_message # <<>>
    /\ UpdatedMetadata(old, user_message, assistant_message, 0).message_count >= TitleThreshold

update_thread_after_message(user_message, assistant_message) ==
    /\ th_now < MaxNow
    /\ IF th_current = 0 \/ th_current \notin DOMAIN th_metadata
       THEN /\ th_last' = Operation("update_thread_after_message", FALSE, FALSE, <<>>)
            /\ UNCHANGED <<th_metadata, th_now>>
       ELSE /\ th_metadata[th_current].message_count + 2 <= MaxMessageCount
            /\ th_metadata' =
                  [th_metadata EXCEPT ![th_current] =
                      UpdatedMetadata(@, user_message, assistant_message, th_now)]
            /\ th_now' = th_now + 1
            /\ th_last' = Operation("update_thread_after_message", TRUE,
                                    GeneratesTitle(th_metadata[th_current], user_message,
                                                   assistant_message), <<>>)
    /\ UNCHANGED <<th_order, th_current, th_conversation, th_next>>
    /\ UNCHANGED <<reqVars, toolVars, execVars, readVars, svcVars>>

\* seq without the element x
Without(seq, x) == SelectSeq(seq, LAMBDA y : y # x)

\* max(self.thread_metadata.values(), key=lambda m: m.last_message_at): the first
\* of the dict's order among the greatest
LatestThread(metadata, order) ==
    LET greatest == {i \in DOMAIN order :
                        \A j \in DOMAIN order :
                            metadata[order[j]].last_message_at <= metadata[order[i]].last_message_at}
    IN  order[CHOOSE i \in greatest : \A j \in greatest : i <= j]

\* delete_thread(thread_id), lines 278-311.  `unlink_raises`: removing the
\* thread's file raises OSError; the entry is already deleted (line 285) and the
\* `except Exception` of line 309 returns False before the current thread is
\* replaced and before the index is saved.
delete_thread(thread_id, unlink_raises) ==
    /\ IF thread_id \notin DOMAIN th_metadata
       THEN /\ th_last' = Operation("delete_thread", FALSE, FALSE, <<>>)
            /\ UNCHANGED <<th_metadata, th_order, th_current, th_conversation>>
       ELSE LET rest == [t \in DOMAIN th_metadata \ {thread_id} |-> th_metadata[t]]
                order == Without(th_order, thread_id)
            IN  /\ th_metadata' = rest
                /\ th_order' = order
                /\ th_last' = Operation("delete_thread", ~unlink_raises, FALSE, <<>>)
                /\ IF unlink_raises
                   THEN UNCHANGED <<th_current, th_conversation>>
                   ELSE IF th_current = thread_id
                        THEN IF order # <<>>
                             THEN /\ th_current' = LatestThread(rest, order)
                                  /\ th_conversation' = LatestThread(rest, order)
                             ELSE /\ th_current' = 0
                                  /\ th_conversation' = 0
                        ELSE UNCHANGED <<th_current, th_conversation>>
    /\ UNCHANGED <<th_now, th_next>>
    /\ UNCHANGED <<reqVars, toolVars, execVars, readVars, svcVars>>

rename_thread(thread_id, new_title) ==
    /\ IF thread_id \notin DOMAIN th_metadata
       THEN /\ th_last' = Operation("rename_thread", FALSE, FALSE, <<>>)
            /\ UNCHANGED th_metadata
       ELSE /\ th_metadata' = [th_metadata EXCEPT ![thread_id].title = new_title]
            /\ th_last' = Operation("rename_thread", TRUE, FALSE, <<>>)
    /\ UNCHANGED <<th_order, th_current, th_conversation, th_now, th_next>>
    /\ UNCHANGED <<reqVars, toolVars, execVars, readVars, svcVars>>

\* ClearConversation of the service resetting the thread's count as well
clear_conversation_ResetsCount ==
    /\ IF th_conversation = 0
       THEN /\ th_last' = Operation("clear_conversation", FALSE, FALSE, <<>>)
            /\ UNCHANGED th_metadata
       ELSE /\ th_last' = Operation("clear_conversation", TRUE, FALSE, <<>>)
            /\ th_metadata' = [t \in DOMAIN th_metadata |->
                                  IF t = th_conversation
                                  THEN [th_metadata[t] EXCEPT !.message_count = 0]
                                  ELSE th_metadata[t]]
    /\ UNCHANGED <<th_order, th_current, th_conversation, th_now, th_next>>
    /\ UNCHANGED <<reqVars, toolVars, execVars, readVars, svcVars>>

\* ClearConversation of the service: the current conversation, if there is one,
\* drops its messages and tool executions; the index is not touched and nothing
\* is saved
clear_conversation ==
    /\ IF th_conversation = 0
       THEN th_last' = Operation("clear_conversation", FALSE, FALSE, <<>>)
       ELSE th_last' = Operation("clear_conversation", TRUE, FALSE, <<>>)
    /\ UNCHANGED <<th_metadata, th_order, th_current, th_conversation, th_now, th_next>>
    /\ UNCHANGED <<reqVars, toolVars, execVars, readVars, svcVars>>

\* ListThreads of the service: the ids of get_thread_list
ListThreads ==
    /\ th_last' = Operation("get_thread_list", TRUE, FALSE,
                            get_thread_list(th_metadata, th_order))
    /\ UNCHANGED <<th_metadata, th_order, th_current, th_conversation, th_now, th_next>>
    /\ UNCHANGED <<reqVars, toolVars, execVars, readVars, svcVars>>

ThreadIds == 1 .. MaxThreads

ThreadNext ==
    \/ \E title \in {Placeholder, SessionTitle} : create_thread(title)
    \/ \E t \in ThreadIds : switch_thread(t)
    \/ \E u \in UserMessages, a \in AssistantMessages : update_thread_after_message(u, a)
    \/ \E t \in ThreadIds, unlink_raises \in BOOLEAN : delete_thread(t, unlink_raises)
    \/ \E t \in ThreadIds, title \in Titles : rename_thread(t, title)
    \/ clear_conversation
    \/ ListThreads

(***************************************************************************)
(*                            Specifications                               *)
(***************************************************************************)

ReqSpecInit == ReqInit /\ ToolIdle /\ ExecIdle /\ ReadIdle /\ SvcIdle /\ ThreadIdle

ReqSpec == ReqSpecInit /\ [][ReqNext]_vars

ToolSpecInit == ToolInit /\ ReqAtRest /\ ExecIdle /\ ReadIdle /\ SvcIdle /\ ThreadIdle

ToolSpec == ToolSpecInit /\ [][ToolNext]_vars

ExecSpecInit == ExecInit /\ ReqAtRest /\ ToolIdle /\ ReadIdle /\ SvcIdle /\ ThreadIdle

ExecSpec == ExecSpecInit /\ [][ExecNext]_vars

ReadSpecInit == ReadInit /\ ReqAtRest /\ ToolIdle /\ ExecIdle /\ SvcIdle /\ ThreadIdle

ReadSpec == ReadSpecInit /\ [][ReadNext]_vars

SvcSpecInit == SvcInit /\ ReqAtRest /\ ToolIdle /\ ExecIdle /\ ReadIdle /\ ThreadIdle

SvcSpec == SvcSpecInit /\ [][SvcNext]_vars

ThreadSpecInit == ThreadInit /\ ReqAtRest /\ ToolIdle /\ ExecIdle /\ ReadIdle /\ SvcIdle

ThreadSpec == ThreadSpecInit /\ [][ThreadNext]_vars

\* execute is one sequential control flow: once called, it takes its next step
ExecFairSpec == ExecSpec /\ WF_vars(ExecNext /\ ex_pc # "idle")

(***************************************************************************)
(*                 Properties of APIProvider.make_request                  *)
(***************************************************************************)

IsStatus(o, S) == o.kind = "response" /\ o.status \in S
IsTimeout(o) == o.kind = "raise" /\ o.exc = "TimeoutException"
IsConnect(o) == o.kind = "raise" /\ o.exc = "ConnectError"
Is5xx(o) == o.kind = "response" /\ o.status >= 500
IsTransient(o) == IsTimeout(o) \/ IsConnect(o) \/ Is5xx(o)
IsJson200(o) == IsStatus(o, {200}) /\ ~ParseRaises(provider, o.body)
IsBad200(o) == IsStatus(o, {200}) /\ ParseRaises(provider, o.body)

\* attempt number i (1-based) was followed by a sleep of w seconds and the loop
\* went on to a further attempt
RetriedAfter(i, w) ==
    /\ Len(slept) >= i
    /\ slept[i] = w
    /\ attempt >= i
    /\ (Len(seen) > i \/ (rq_pc = "loop" /\ attempt < max_retries))

\* attempt number i (1-based) was the last one: no sleep and no attempt after it
LastAttempt(i) ==
    /\ Len(seen) = i
    /\ Len(slept) = i - 1
    /\ ~(rq_pc = "loop" /\ attempt < max_retries)

\* attempt number i ended the call with the value v
EndedWith(i, v) ==
    /\ LastAttempt(i)
    /\ rq_pc = "returned"
    /\ rq_result = v

TransientRule(i) ==
    IsTransient(seen[i]) =>
        IF i - 1 < max_retries - 1
        THEN RetriedAfter(i, 2 ^ (i - 1))
        ELSE LastAttempt(i)

Is500s200(s) ==
    /\ Len(s) = 3
    /\ IsStatus(s[1], {500}) /\ IsStatus(s[2], {500}) /\ IsStatus(s[3], {200})

\* C5 as stated: transient failures on attempt i (0-based) are followed by a
\* wait of 2^i and a further attempt iff i < N-1; the first HTTP 200 ends the
\* call with the parsed response; at most N attempts; [500, 500, 200] gives
\* exactly two retries and a final success.
C5_AsStated ==
    /\ Len(seen) <= max_retries
    /\ \A i \in 1 .. Len(seen) :
          /\ TransientRule(i)
          /\ IsStatus(seen[i], {200}) =>
                EndedWith(i, ParseResponse(provider, seen[i].body))
    /\ (Is500s200(seen) /\ max_retries = DefaultMaxRetries) =>
          /\ slept = <<1, 2>>
          /\ rq_pc = "returned"
          /\ rq_result = ParseResponse(provider, seen[3].body)

\* C5 amended: as C5, but only a 200 whose body is decoded and parsed
\* without an exception ends the call with the parsed response; a 200 whose
\* body raises in decoding or parsing is handled like a transient failure
\* (wait 2^i and retry iff i < N-1).
C5_RetryBackoff ==
    /\ Len(seen) <= max_retries
    /\ \A i \in 1 .. Len(seen) :
          /\ TransientRule(i)
          /\ IsJson200(seen[i]) =>
                EndedWith(i, ParseResponse(provider, seen[i].body))
          /\ IsBad200(seen[i]) =>
                IF i - 1 < max_retries - 1
                THEN RetriedAfter(i, 2 ^ (i - 1))
                ELSE LastAttempt(i)
    /\ (Is500s200(seen) /\ IsJson200(seen[3]) /\ max_retries = DefaultMaxRetries) =>
          /\ slept = <<1, 2>>
          /\ rq_pc = "returned"
          /\ rq_result = ParseResponse(provider, seen[3].body)

\* a backend that answered [500, 500, 200] to a call with the default budget
C5_Witness ==
    /\ max_retries = DefaultMaxRetries
    /\ Is500s200(seen) /\ IsJson200(seen[3])
    /\ rq_pc = "returned"
    /\ slept = <<1, 2>>

\* C6: a 401 or 403 answer ends the call after that attempt, with no retry
\* and no wait, and the message tells the user to check the API key or its
\* permissions.
C6_AuthFatalActionable ==
    \A i \in 1 .. Len(seen) :
        IsStatus(seen[i], {401, 403}) =>
            EndedWith(i, ErrorResult(IF seen[i].status = 401
                                     THEN MsgInvalidKey
                                     ELSE MsgAccessDenied))

\* C7: a 429 answer on attempt k (1-based) is retried after 5*k seconds
\* whenever k < N; the rate-limit error is returned only when the budget is
\* used up.
C7_RateLimitRetried ==
    \A k \in 1 .. Len(seen) :
        IsStatus(seen[k], {429}) =>
            IF k < max_retries
            THEN RetriedAfter(k, 5 * k)
            ELSE EndedWith(k, ErrorResult(MsgRateLimit))

Other4xx == {s \in StatusCodes : s >= 400 /\ s < 500} \ {401, 403, 429}

\* the message shows the status code
ShowsStatus(msg, x) == msg.status = x

\* C8: a 4xx answer other than 401, 403 and 429 ends the call after that
\* attempt, with no retry and no wait, with an error whose message contains
\* the status code.
C8_Other4xxImmediate ==
    \A i \in 1 .. Len(seen) :
        IsStatus(seen[i], Other4xx) =>
            /\ LastAttempt(i)
            /\ rq_pc = "returned"
            /\ rq_result.error = TRUE
            /\ ShowsStatus(rq_result.message, seen[i].status)

\* a 404 answered the second attempt, after a 500
C8_Witness ==
    /\ Len(seen) = 2
    /\ IsStatus(seen[1], {500})
    /\ IsStatus(seen[2], {404})
    /\ rq_pc = "returned"

\* C9: when every attempt failed with a transient error, the returned
\* message is the one of the class of the last failure: timeout, connection
\* or service unavailable.
C9_ExhaustedMessageByClass ==
    ( /\ rq_pc = "returned"
      /\ max_retries > 0
      /\ Len(seen) = max_retries
      /\ \A i \in 1 .. Len(seen) : IsTransient(seen[i]) )
    => rq_result =
          ErrorResult(CASE IsTimeout(seen[Len(seen)]) -> MsgTimeout
                        [] IsConnect(seen[Len(seen)]) -> MsgConnection
                        [] OTHER                      -> MsgServer)

(***************************************************************************)
(*                       Properties of ToolExecutor                        *)
(***************************************************************************)

\* C10: a dispatch of a tool name that is not registered, with any argument
\* map, returns success=false with an output that lists the registered tool
\* names, calls no tool function and raises no exception.
C10_UnknownToolNeverRaises ==
    (tx_call.made /\ tx_call.tool_name \notin Range(functions)) =>
        /\ tx_result = Returned(FALSE, NotFoundOutput(tx_call.tool_name, functions), FALSE)
        /\ called = <<>>

\* the keyword arguments execute_tool hands on to execute_tool_sync
CallerKwargs(tool_name, args) ==
    IF tool_name \in StreamingTools
    THEN args
    ELSE WithoutKey(args, "streaming_callback")

\* the argument names of a call that the tool does not accept, and the ones
\* it requires that the call lacks
Offending(tool_name, args) ==
    (DOMAIN args \ Params(tool_name)) \cup (Required(tool_name) \ DOMAIN args)

\* C17: a registered tool called with an argument name it does not accept,
\* or without an argument it requires, gives a result with success=false
\* whose output names the tool and the offending argument; nothing is
\* raised and the tool function is not run.
C17_ArgMismatchReported ==
    ( /\ tx_call.made
      /\ tx_call.tool_name \in Range(functions)
      /\ Offending(tx_call.tool_name, tx_call.args) # {} )
    =>  /\ tx_result.kind = "return"
        /\ tx_result.success = FALSE
        /\ tx_result.output.tool = tx_call.tool_name
        /\ tx_result.output.detail \in Offending(tx_call.tool_name, tx_call.args)
        /\ called = <<>>

Requests == Len(responses)

CarriesToolCalls(response) == response.kind = "tools"

Running == ex_pc \in {"request", "tools"}

\* C1: whatever the Provider answers, also when every response requests
\* tool calls, execute makes at most max_tool_iterations Provider requests
\* and then terminates.
C1_BoundedLoop ==
    /\ [](Requests <= max_tool_iterations)
    /\ (Running ~> ex_pc = "done")

\* execute with the default cap has ended after ten responses that all
\* requested tool calls
C1_Witness ==
    /\ ex_pc = "done"
    /\ max_tool_iterations = DefaultMaxToolIterations
    /\ Requests = DefaultMaxToolIterations
    /\ \A i \in 1 .. Requests : CarriesToolCalls(responses[i])

\* the stored messages end with this exchange's user message and the
\* assistant message `text`, after what was stored before
StoreEndsWithExchange(text) ==
    /\ Len(store) >= 2
    /\ store[Len(store)] = StoredMessage("assistant", text, FALSE)
    /\ store[Len(store) - 1].role = "user"
    /\ store[Len(store) - 1].text = UserText
    /\ SubSeq(store, 1, Len(store) - 2) \in {<<>>, EarlierExchange}

RECURSIVE CallsOf(_)
CallsOf(rs) ==
    IF rs = <<>> THEN <<>>
    ELSE CallsOf(SubSeq(rs, 1, Len(rs) - 1)) \o rs[Len(rs)].tool_calls

\* C3: when each of the first max_tool_iterations Provider responses
\* carries tool calls, execute stops after exactly max_tool_iterations
\* requests, appends the fallback message as an assistant message and
\* returns it; the tool invocations recorded so far stay in the store.
C3_CapFallback ==
    ( /\ ex_pc = "done"
      /\ returned # ReturnValue(NoApiKeyText)
      /\ returned # ReturnValue(FreeLimitText)
      /\ returned # ReturnValue(CloudLimitText)
      /\ \A i \in 1 .. Requests : CarriesToolCalls(responses[i]) )
    =>  /\ Requests = max_tool_iterations
        /\ returned = ReturnValue(FinalResponseText)
        /\ conversation =>
              /\ StoreEndsWithExchange(FinalResponseText)
              /\ Len(tool_executions) = Len(CallsOf(responses))

\* the block of tool-result messages that follows the assistant turn at p
ResultsFollow(p) ==
    LET ids == messages[p].tool_calls
    IN  /\ p + Len(ids) <= Len(messages)
        /\ \A i \in 1 .. Len(ids) :
              /\ messages[p + i].role = "tool"
              /\ messages[p + i].tool_call_id = ids[i]

IsToolTurn(m) == m.role = "assistant" /\ m.tool_calls # <<>>

\* C4: within a turn the tool calls are executed one at a time in the order
\* of the response, and the tool-result messages of the in-flight array
\* follow the assistant turn in that order, the i-th with the id of the
\* i-th call.
C4_ResultsInCallOrder ==
    /\ ex_pc = "tools" =>
          /\ Len(results) = tc_index - 1
          /\ IsToolTurn(messages[Len(messages)])
          /\ messages[Len(messages)].tool_calls
                = [i \in 1 .. Len(tool_calls) |-> tool_calls[i].id]
    /\ \A i \in 1 .. Len(results) :
          /\ results[i].role = "tool"
          /\ results[i].tool_call_id = tool_calls[i].id
    /\ \A p \in 1 .. Len(messages) :
          /\ IsToolTurn(messages[p]) => (p = Len(messages) \/ ResultsFollow(p))
          /\ messages[p].role = "tool" =>
                \E q \in 1 .. (p - 1) :
                    /\ IsToolTurn(messages[q])
                    /\ p - q <= Len(messages[q].tool_calls)

\* the four results of a turn are in the in-flight array, under the ids
\* call_2, call_3, call_1, call_4 of its calls
C4_Witness ==
    /\ ex_pc = "request"
    /\ Len(messages) >= 5
    /\ [i \in 1 .. 4 |-> messages[Len(messages) - 4 + i].tool_call_id]
          = <<"call_2", "call_3", "call_1", "call_4">>

\* C11: whatever the Provider answers and whatever its tool calls carry,
\* execute returns a value and no exception propagates out of it.
C11_NoExceptionEscapes == returned.kind # "raise"

\* the log entries of a list of tool calls, one per call
ExpectedLog(calls) ==
    [i \in 1 .. Len(calls) |->
        ToolExecution(calls[i].name, DecodeArguments(calls[i]).args,
                      execute_tool(functions, workspace, token_context,
                                   calls[i].name, DecodeArguments(calls[i]).args,
                                   calls[i].does).res)]

\* C16: with a conversation attached, when execute has ended the tool log
\* holds exactly one entry per tool call of the responses, in order, each
\* with the success flag of that call's result.
C16_LogPerCall ==
    (ex_pc = "done" /\ conversation) =>
        tool_executions = ExpectedLog(CallsOf(responses))

\* the last Provider response asked for tools and some of them were run
LastTurnRanTools ==
    /\ responses # <<>>
    /\ CarriesToolCalls(responses[Len(responses)])
    /\ results # <<>>

\* C24: every tool call that execute runs has its result message included in a
\* later Provider request of the same call: when execute has ended, the last
\* Provider request is not one whose tool calls were run.
C24_ToolResultsReachProvider ==
    ex_pc = "done" => ~LastTurnRanTools

\* the call passed the usage gate: self.total_requests was incremented
PassedGate == total_requests > 0

\* the store is what it was before the call, then one user message, then one
\* assistant message
StoredOneExchange ==
    /\ Len(store) >= 2
    /\ store[Len(store) - 1].role = "user"
    /\ store[Len(store)].role = "assistant"
    /\ SubSeq(store, 1, Len(store) - 2) \in {<<>>, EarlierExchange}

\* C25: every execute call that has a conversation attached and passes the usage
\* gate has appended exactly one user message followed by exactly one assistant
\* message to the store when it ends, on every exit path.
C25_ExchangeStoredOnEveryExit ==
    (ex_pc = "done" /\ conversation /\ PassedGate) => StoredOneExchange

\* the in-flight array gains the assistant turn with its tool calls, or the
\* tool-result messages of a turn
LoopExtendsMessages ==
    /\ ex_pc \in {"request", "tools"}
    /\ Len(messages') > Len(messages)

C12_RangeWithinDocument ==
    (rf_call.made /\ rf_result.success) =>
        /\ 1 <= rf_result.start_line
        /\ rf_result.start_line <= rf_result.end_line
        /\ rf_result.end_line <= rf_result.total_lines
        /\ rf_result.lines_shown >= 1

\* the start_line of the last call, with the default spelled out
StartLineOf(call) == IF call.start_line.given THEN call.start_line.value ELSE 1

AutoModeRead ==
    /\ rf_call.made
    /\ rf_call.auto_truncate
    /\ ~rf_call.limit_lines.given
    /\ rf_result.success

\* C13: an auto-mode read under a token context with budget B, from a start
\* line K in 1..L, returns startLine = K, endLine <= L and a slice of at most B
\* estimated tokens (characters / 4).
C13_WindowWithinBudget ==
    (AutoModeRead /\ rf_context.set /\ StartLineOf(rf_call) \in 1 .. rf_doc.lines) =>
        /\ rf_result.start_line = StartLineOf(rf_call)
        /\ rf_result.end_line <= rf_doc.lines
        /\ EstimateTokens(rf_result.chars) <= rf_context.available_tokens

\* C14: the windows of a reading process that starts with a truncated auto-mode
\* read at line 1 and goes on by the returned hints are adjacent, return no line
\* twice, and cover 1..L once no hint is left to follow.
C14_HintsCoverDocument ==
    (rf_chain # <<>> /\ rf_chain[1].truncated) =>
        /\ rf_chain[1].start_line = 1
        /\ \A i \in 1 .. Len(rf_chain) - 1 :
              rf_chain[i + 1].start_line = rf_chain[i].end_line + 1
        /\ \A i, j \in 1 .. Len(rf_chain) :
              i < j => rf_chain[i].end_line < rf_chain[j].start_line
        /\ ~rf_hint.has => rf_chain[Len(rf_chain)].end_line = rf_doc.lines

\* the slice of the last read stops before the last line of the document
StopsEarly == rf_result.end_line < rf_result.total_lines

\* C29: a successful read_file reports truncated = true and emits a continuation
\* hint exactly when the slice stops before the last line, in auto mode and with
\* limit_lines given.
C29_TruncatedIffStopsEarly ==
    (rf_call.made /\ rf_result.success) =>
        /\ rf_result.truncated <=> StopsEarly
        /\ rf_result.hint.has <=> StopsEarly

\* The continuation hint of the last read_file is still in the tool-result
\* message after _execute_tool_calls has cut the output at OutputCap.
HintSurvivesCap == rf_result.hint_end <= OutputCap

\* C23: whenever read_file truncates a document and emits a continuation hint,
\* the tool-result message built by _execute_tool_calls still contains the
\* hint's next start_line after the 10,000-character output cap is applied.
C23_HintSurvivesCap ==
    (rf_call.made /\ rf_result.success /\ rf_result.truncated /\ rf_result.hint.has)
        => HintSurvivesCap

\* A truncated read whose hint lies beyond the first OutputCap characters.
C23_HintCutOff ==
    ~ (rf_call.made /\ rf_result.success /\ rf_result.truncated
       /\ rf_result.hint.has /\ ~ HintSurvivesCap)

(***************************************************************************)
(*                Properties of Ask / AskWithScreenshot                    *)
(***************************************************************************)

\* the invocations inside the body of `with self._lock`
InBody == {i \in Invocations : sv_pc[i] \in {"execute", "loop", "update", "release"}}

MutuallyExclusive == Cardinality(InBody) <= 1

\* the user message at position k is directly followed by the assistant message
\* of the same invocation
AnsweredInPlace(k) ==
    /\ k < Len(sv_store)
    /\ sv_store[k + 1].role = "assistant"
    /\ sv_store[k + 1].inv = sv_store[k].inv

\* C15: the bodies of concurrent Ask / AskWithScreenshot invocations exclude each
\* other, and in the stored messages the user message of every invocation that
\* has left execute is directly followed by that invocation's assistant message.
C15_SerializedExchanges ==
    /\ MutuallyExclusive
    /\ \A k \in 1 .. Len(sv_store) :
          ( /\ sv_store[k].role = "user"
            /\ sv_pc[sv_store[k].inv] \in {"update", "release", "done"} )
          => AnsweredInPlace(k)

\* no invocation is between `with self._lock` and its return
Quiescent == sv_lock = 0

\* nothing but Ask / AskWithScreenshot was called on the thread the service
\* created empty at its start: no thread was created or switched to, and the
\* conversation was not cleared
OnlyExchanges ==
    /\ sv_object = 1
    /\ ~sv_cleared

\* C26: for a thread created empty and never cleared, after any sequence of
\* Ask / AskWithScreenshot exchanges the thread's message_count equals the
\* number of messages stored in the thread's conversation, whichever way each
\* execute ended.
C26_CountMatchesStore ==
    (Quiescent /\ OnlyExchanges) => sv_count[sv_current] = Len(sv_store)

\* the invocation has stored both of its messages and updated a thread
Settled(i) ==
    /\ sv_trace[i].user_object # 0
    /\ sv_trace[i].assistant_object # 0
    /\ sv_trace[i].updated_thread # 0

UpdateStep ==
    /\ th_last'.name = "update_thread_after_message"
    /\ th_last'.ok
    /\ th_now' = th_now + 1

\* the exchange takes message_count of the current thread to the threshold
ReachesThreshold ==
    /\ th_metadata[th_current].message_count < TitleThreshold
    /\ th_metadata'[th_current].message_count >= TitleThreshold

\* C19: update_thread_after_message generates a title on the exchange at which
\* message_count of a thread titled 'New Chat' first reaches the threshold, on
\* no other exchange, and does not change the title otherwise.
C19_TitleGeneratedOnce ==
    [][ UpdateStep =>
          /\ th_last'.generated <=>
                (th_metadata[th_current].title = Placeholder /\ ReachesThreshold)
          /\ ~th_last'.generated =>
                th_metadata'[th_current].title = th_metadata[th_current].title ]_vars

\* T1 (pinned, last = 5), T2 (unpinned, last = 10), T3 (pinned, last = 1)
ExampleThreads ==
    /\ DOMAIN th_metadata = {1, 2, 3}
    /\ th_metadata[1].pinned /\ th_metadata[1].last_message_at = 5
    /\ ~th_metadata[2].pinned /\ th_metadata[2].last_message_at = 10
    /\ th_metadata[3].pinned /\ th_metadata[3].last_message_at = 1

Listed == th_last.name = "get_thread_list"

\* C20: get_thread_list returns every thread exactly once, pinned threads before
\* unpinned ones, each group by descending last_message_at; the threads T1, T2,
\* T3 of the example are listed as T1, T3, T2.
C20_ListOrder ==
    Listed =>
        LET l == th_last.listed
        IN  /\ Len(l) = Cardinality(DOMAIN th_metadata)
            /\ {l[i] : i \in DOMAIN l} = DOMAIN th_metadata
            /\ \A i, j \in DOMAIN l :
                  i < j =>
                    /\ th_metadata[l[j]].pinned => th_metadata[l[i]].pinned
                    /\ th_metadata[l[i]].pinned = th_metadata[l[j]].pinned =>
                          th_metadata[l[i]].last_message_at >= th_metadata[l[j]].last_message_at
            /\ ExampleThreads => l = <<1, 3, 2>>

C20_Witness == Listed /\ ExampleThreads /\ th_last.listed = <<1, 3, 2>>

\* C27: after constructing the manager from any persisted index and after any
\* sequence of create_thread, switch_thread and delete_thread, whenever
\* current_thread_id is not None the current conversation is not None and its
\* session_id is current_thread_id.
C27_CurrentHasConversation ==
    th_current # 0 => th_conversation = th_current

\* the index: the entries, their order, and the current thread
Index == <<th_metadata, th_order, th_current>>

\* the step is a switch_thread or a delete_thread that answers False
FailedSwitchOrDelete ==
    /\ th_last'.name \in {"switch_thread", "delete_thread"}
    /\ ~th_last'.ok
    /\ \/ \E t \in ThreadIds : switch_thread(t)
       \/ \E t \in ThreadIds, unlink_raises \in BOOLEAN : delete_thread(t, unlink_raises)

\* the step deletes the current thread and answers True
DeletesCurrent ==
    /\ th_current \in DOMAIN th_metadata
    /\ delete_thread(th_current, FALSE)

\* C30: after any sequence of create_thread, switch_thread (unknown ids
\* included), delete_thread and rename_thread, current_thread_id is None or the
\* id of an entry of thread_metadata; deleting the current thread makes the
\* remaining thread with the greatest last_message_at current, or None when no
\* thread remains; a failed switch or delete leaves the index unchanged.
C30_CurrentIsAnEntry ==
    [][ /\ th_current' = 0 \/ th_current' \in DOMAIN th_metadata'
        /\ FailedSwitchOrDelete => Index' = Index
        /\ DeletesCurrent =>
              IF DOMAIN th_metadata' = {}
              THEN th_current' = 0
              ELSE \A u \in DOMAIN th_metadata' :
                      th_metadata'[u].last_message_at
                          <= th_metadata'[th_current'].last_message_at ]_vars

\* C21: over create_thread, switch_thread, update_thread_after_message,
\* rename_thread and clear_conversation (and every other step of the manager),
\* the message_count of a thread that exists before and after the step never
\* decreases.
C21_CountNeverDecreases ==
    [][\A t \in DOMAIN th_metadata \cap DOMAIN th_metadata' :
          th_metadata'[t].message_count >= th_metadata[t].message_count]_vars

\* the conversation of a thread that has counted messages was just cleared
C21_Witness ==
    /\ th_last.name = "clear_conversation"
    /\ th_last.ok
    /\ th_conversation \in DOMAIN th_metadata
    /\ th_metadata[th_conversation].message_count > 0

====
